---- MODULE Spec2Model ----
(***************************************************************************)
(* A model of the WebAssembly linker in src/wasm: the driver               *)
(* (Driver.cpp), the symbol table (SymbolTable.cpp, Symbols.cpp) and the   *)
(* index / memory phases of the Writer (Writer.cpp).                       *)
(*                                                                         *)
(* One link is one behaviour.  The command line, the contents of the       *)
(* input objects and the archive directories are inputs: they are drawn    *)
(* with \E in the step that first reads them and are recorded in the       *)
(* state.  File->parse() is a call stack ("stack"): an undefined reference *)
(* to a Lazy symbol pushes the archive member on top of the file that is   *)
(* being parsed, exactly as the nested call does.                          *)
(*                                                                         *)
(* 32-bit unsigned values (uint32_t) are pairs <<hi, lo>> of 16-bit limbs, *)
(* so that arithmetic wraps at 2^32 as it does in the program.             *)
(***************************************************************************)
EXTENDS Integers, Sequences, FiniteSets, TLC

\* ------------------------------------------------------------------ bounds

\* Wasm symbols (imports and exports) of one object file.
MaxSyms == 2
\* Objects whose memory layout LayoutSpec lays out.
MaxLayoutObjects == 2
\* Wasm symbols of the object WriterSpec links.
MaxWriterSyms == 2
\* Relocations of the code section of the object WriterSpec links.
MaxRelocs == 1
\* DEBUG_FUNCTION_NAME symbols of the objects NameSpec links, all together.
MaxDebugNames == 2

\* ------------------------------------------------------- program constants

WasmPageSize == 65536

\* ----------------------------------------------------------- 32-bit words

Limb == WasmPageSize

U32(n) == <<(n \div Limb) % Limb, n % Limb>>

Add32(a, b) ==
  LET lo == a[2] + b[2]
  IN  <<(a[1] + b[1] + (lo \div Limb)) % Limb, lo % Limb>>

Sub32(a, b) ==
  LET lo == a[2] - b[2]
      borrow == IF lo < 0 THEN 1 ELSE 0
  IN  <<(a[1] - b[1] - borrow + 2 * Limb) % Limb, (lo + Limb) % Limb>>

Lt32(a, b) == a[1] < b[1] \/ (a[1] = b[1] /\ a[2] < b[2])

Le32(a, b) == a = b \/ Lt32(a, b)

\* ------------------------------------------------------------------ inputs

\* Names the input objects import and export.
Names == {"foo", "bar"}
DefaultEntry == "_start"
StackPointer == "__stack_pointer"
AllNames == Names \cup {DefaultEntry, StackPointer}

ImportTypes == {"FUNCTION_IMPORT", "GLOBAL_IMPORT"}
ExportTypes == {"FUNCTION_EXPORT", "GLOBAL_EXPORT"}

\* The wasm symbol records (WasmSymbol: Name, Type, weak flag) an object may
\* hold.  The names of WeakNames have weak exports too; the entry name
\* appears as a non-weak function export.
WeakNames == {"foo"}
WasmSymbols ==
  [Name : Names, Type : ImportTypes, Weak : {FALSE}]
    \cup [Name : Names, Type : ExportTypes, Weak : {FALSE}]
    \cup [Name : WeakNames, Type : ExportTypes, Weak : {TRUE}]
    \cup {[Name |-> DefaultEntry, Type |-> "FUNCTION_EXPORT", Weak |-> FALSE]}

\* Command lines: Relocatable, AllowUndefined and the contents of the
\* --allow-undefined-file.  (Under Relocatable, and under AllowUndefined, the
\* name list is never read.)
AllowLists == {{}, {DefaultEntry, "foo"}}
Configs ==
  [Relocatable : {FALSE}, AllowUndefined : {FALSE}, AllowUndefinedSymbols : AllowLists]
    \cup [Relocatable : {FALSE}, AllowUndefined : {TRUE}, AllowUndefinedSymbols : {{}}]
    \cup [Relocatable : {TRUE}, AllowUndefined : {FALSE}, AllowUndefinedSymbols : {{}}]

\* The files named on the command line, in order: objects and archives.
CommandLines ==
  { <<"obj">>, <<"archive">>, <<"obj", "obj">>, <<"obj", "archive">>, <<"archive", "obj">> }

\* Archive directories: the symbol index of an archive, each entry naming the
\* member that defines the symbol.
ArchiveDirs ==
  { <<[name |-> n, member |-> 1]>> : n \in Names }
    \cup { <<[name |-> p[1], member |-> 1], [name |-> p[2], member |-> p[3]]>> :
             p \in { q \in Names \X Names \X {1, 2} : q[1] # q[2] } }

\* ------------------------------------------------------------------- state

VARIABLES
  pc,               \* where the link is: the next step of LinkerDriver::link / Writer::run
  Config,           \* Configuration: Relocatable, AllowUndefined, AllowUndefinedSymbols, Entry
  ErrorCount,       \* the process-wide error counter
  errors,           \* history: the error() messages reported, <<message, name>>
  fatalMsg,         \* the message of the fatal() that ended the process, "" if none
  Symtab,           \* SymbolTable::Symtab: name -> Symbol ("Absent" when not inserted)
  Files,            \* LinkerDriver::Files: the kinds of the command-line files added so far
  files,            \* every InputFile made so far, a file's id is its index
  stack,            \* the running File->parse() calls, innermost last
  ObjectFiles,      \* SymbolTable::ObjectFiles: ids of the parsed objects, in push_back order
  SyntheticGlobals, \* Config->SyntheticGlobals: <<symbol name, init value>> records
  FunctionImports,  \* Writer::FunctionImports (symbol names)
  GlobalImports,    \* Writer::GlobalImports (symbol names)
  TotalFunctions,   \* Writer::TotalFunctions
  TotalGlobals,     \* Writer::TotalGlobals
  TotalMemoryPages, \* Writer::TotalMemoryPages
  TotalTypes,       \* Writer::TotalTypes
  TotalTableLength, \* Writer::TotalTableLength
  TotalExports,     \* Writer::TotalExports
  TotalElements,    \* Writer::TotalElements
  TotalDataSegments,    \* Writer::TotalDataSegments
  TotalCodeRelocations, \* Writer::TotalCodeRelocations
  sections,         \* the sections written to the output file, in file order
  leb,              \* the padded LEB128 field the encoder was last asked for
  outputFile,       \* what the link did to the output path: "untouched" or "created"
  linkResult,       \* what link() returned ("true", "false"): "none" until it returns
  asserts,          \* assertions of the program that were reached with a false condition
  defOrder,         \* history: per name, the files that called addDefined, in call order
  asked             \* history: per name, the addMember calls made for it

vars == <<pc, Config, ErrorCount, errors, fatalMsg, Symtab, Files, files, stack, ObjectFiles,
          SyntheticGlobals, FunctionImports, GlobalImports, TotalFunctions, TotalGlobals,
          TotalMemoryPages, TotalTypes, TotalTableLength, TotalExports, TotalElements,
          TotalDataSegments, TotalCodeRelocations, sections, leb, outputFile, linkResult,
          asserts, defOrder, asked>>

symVars == <<Symtab, Files, files, stack, ObjectFiles, defOrder, asked>>
writerVars == <<FunctionImports, GlobalImports, TotalFunctions, TotalGlobals,
                TotalMemoryPages, outputFile>>
totalVars == <<TotalTypes, TotalTableLength, TotalExports, TotalElements, TotalDataSegments,
               TotalCodeRelocations>>

\* ------------------------------------------------------------- LEB128

\* No field was asked for.
NoField == [kind |-> "none", value |-> 0, Padding |-> 0, bytes |-> <<>>]

\* The index of the highest set bit of a 16-bit limb n > 0.
RECURSIVE HighBit(_)
HighBit(n) == IF n < 2 THEN 0 ELSE 1 + HighBit(n \div 2)

\* llvm::countLeadingZeros of a 32-bit word.
countLeadingZeros(X) ==
  IF X = U32(0) THEN 32
  ELSE IF X[1] > 0 THEN 15 - HighBit(X[1])
  ELSE 31 - HighBit(X[2])

\* A padding without the case of 0.
PaddingFor5ByteULEB128_noZeroCase(X) == 4 - ((31 - countLeadingZeros(X)) \div 7)

\* PaddingFor5ByteULEB128.
PaddingFor5ByteULEB128(X) ==
  IF X = U32(0) THEN 4 ELSE 4 - ((31 - countLeadingZeros(X)) \div 7)

\* The sign word of a 32-bit signed value: Value >> 31.
SignOf(Value) == IF Value < 0 THEN -1 ELSE 0

\* The test of the SLEB128 loops: more bytes follow the byte just taken from
\* Value (Rest is Value >> 7).
MoreSLEB(Byte, Rest, Sign) ==
  \/ Rest # Sign
  \/ (Sign = 0 /\ Byte >= 64)
  \/ (Sign = -1 /\ Byte < 64)

\* llvm::getSLEB128Size of a 32-bit signed value.
RECURSIVE getSLEB128Size(_)
getSLEB128Size(Value) ==
  IF MoreSLEB(Value % 128, Value \div 128, SignOf(Value))
    THEN 1 + getSLEB128Size(Value \div 128)
    ELSE 1

\* PaddingFor5ByteSLEB128.
PaddingFor5ByteSLEB128(X) == 5 - getSLEB128Size(X)

\* X >> 7 of a 32-bit word.
ShiftRight7(X) == <<X[1] \div 128, (X[1] % 128) * 512 + (X[2] \div 128)>>

\* The pad bytes llvm::encodeULEB128 / encodeSLEB128 end with: Padding - 1
\* bytes with the continuation bit, then one without.
PadBytes(Padding, PadValue) ==
  IF Padding = 0 THEN <<>>
  ELSE [i \in 1..Padding |-> IF i < Padding THEN PadValue + 128 ELSE PadValue]

\* llvm::encodeULEB128(Value, OS, Padding), the bytes written.
RECURSIVE encodeULEB128(_, _)
encodeULEB128(Value, Padding) ==
  LET Byte == Value[2] % 128
      Rest == ShiftRight7(Value)
  IN  IF Rest # U32(0)
        THEN <<Byte + 128>> \o encodeULEB128(Rest, Padding)
        ELSE <<IF Padding # 0 THEN Byte + 128 ELSE Byte>> \o PadBytes(Padding, 0)

\* llvm::encodeSLEB128(Value, p, Padding), the bytes written.
RECURSIVE encodeSLEB128(_, _)
encodeSLEB128(Value, Padding) ==
  LET Byte == Value % 128
      Rest == Value \div 128
  IN  IF MoreSLEB(Byte, Rest, SignOf(Value))
        THEN <<Byte + 128>> \o encodeSLEB128(Rest, Padding)
        ELSE <<IF Padding # 0 THEN Byte + 128 ELSE Byte>>
               \o PadBytes(Padding, IF Value < 0 THEN 127 ELSE 0)

\* ----------------------------------------------------------------- Symbol

\* A name that insert() has not seen.
Absent ==
  [kind |-> "Absent", File |-> 0, Sym |-> 0, ArchiveSymbol |-> 0,
   OutputIndex |-> U32(0), OutputIndexSet |-> FALSE, WrittenToSymtab |-> FALSE]

isLazy(S) == S.kind = "Lazy"
isDefined(S) == S.kind \in {"DefinedFunction", "DefinedGlobal"}
isUndefined(S) == S.kind \in {"UndefinedFunction", "UndefinedGlobal"}
isFunction(S) == S.kind \in {"DefinedFunction", "UndefinedFunction"}
hasOutputIndex(S) == S.OutputIndexSet

\* Symbol::update(K, F, WasmSym): File 0 and Sym 0 are the null pointers.  A
\* wasm symbol record is named by its position in its file's symbol list.
update(S, K, F, WasmSym) == [S EXCEPT !.kind = K, !.File = F, !.Sym = WasmSym]

\* Symbol::setArchiveSymbol: the cookie is the position in the archive directory.
setArchiveSymbol(S, cookie) == [S EXCEPT !.ArchiveSymbol = cookie]

\* A setOutputIndex that stores the index and forgets the flag.
setOutputIndex_forgetsFlag(S, Index) == [S EXCEPT !.OutputIndex = Index]

\* Symbol::setOutputIndex, the assignment.
setOutputIndex(S, Index) == [S EXCEPT !.OutputIndex = Index, !.OutputIndexSet = TRUE]

\* Symbol::setOutputIndex, the assertion: what a call on S adds to the failed
\* assertions.
setOutputIndexAssert(S) == IF S.OutputIndexSet THEN {"setOutputIndex"} ELSE {}

\* The wasm symbol record a Symbol points to.
WasmSymOf(fs, S) == fs[S.File].syms[S.Sym]

\* Symbol::isWeak: Sym->isWeak().  Called only with Sym non-null here.
isWeak(fs, S) == WasmSymOf(fs, S).Weak

\* ------------------------------------------------------------ SymbolTable

Range(seq) == { seq[i] : i \in DOMAIN seq }

\* The outcome of one symbol-table call: the table after it, the error()
\* messages it reported (<<message, symbol name>>, in order), how it ended
\* ("ok", "fatal": fatal() ended the process, "crash": a null pointer was
\* dereferenced) and the archive member it asked for (<<archive id, cookie>>,
\* or <<>>).
Outcome(st, errs, out, load) == [st |-> st, errs |-> errs, out |-> out, load |-> load]

\* SymbolTable::insert: WasInserted.
WasInserted(st, Name) == st[Name].kind = "Absent"

\* checkSymbolTypes: "mismatch" when the families differ, "ok" otherwise and
\* always for a Lazy entry.
checkSymbolTypes(Existing, NewType) ==
  LET NewIsFunction == NewType \in {"FUNCTION_EXPORT", "FUNCTION_IMPORT"}
  IN  IF isLazy(Existing) THEN "ok"
      ELSE IF isFunction(Existing) # NewIsFunction THEN "mismatch"
      ELSE "ok"

\* How a type mismatch ends: error(), error(), fatal(); the second message
\* reads Existing->getFile()->getName(), a null dereference for a synthetic
\* symbol, whose File is null.
mismatchOutcome(st, Existing, Name) ==
  IF Existing.File = 0
    THEN Outcome(st, <<<<"symbol type mismatch", Name>>>>, "crash", <<>>)
    ELSE Outcome(st, <<<<"symbol type mismatch", Name>>, <<"existing type", Name>>>>,
                 "fatal", <<>>)

\* A resolution in which the first definition always wins over a later one.
resolveDefined_firstWins(newIsWeak, oldIsWeak) ==
  IF newIsWeak \/ oldIsWeak THEN "keep" ELSE "duplicate"

\* addDefined, both symbols Defined: what happens to the existing entry.
resolveDefined(newIsWeak, oldIsWeak) ==
  IF newIsWeak THEN "keep"
  ELSE IF oldIsWeak THEN "replace"
  ELSE "duplicate"

\* A reportDuplicate that only warns: no error is counted.
reportDuplicate_warns(st, Name) == Outcome(st, <<>>, "ok", <<>>)

\* SymbolTable::reportDuplicate: one error().
reportDuplicate(st, Name) == Outcome(st, <<<<"duplicate symbol", Name>>>>, "ok", <<>>)

\* The Symbol::Kind addDefined chooses.
definedKind(Type) ==
  IF Type = "GLOBAL_EXPORT" THEN "DefinedGlobal" ELSE "DefinedFunction"

\* The Symbol::Kind addUndefined chooses.
undefinedKind(Type) ==
  IF Type = "GLOBAL_IMPORT" THEN "UndefinedGlobal" ELSE "UndefinedFunction"

\* An addDefined that asks the archive for the member of a Lazy entry.
addDefined_loadsLazy(st, fs, F, pos) ==
  LET Sym == fs[F].syms[pos]
      S == st[Sym.Name]
  IN  IF isLazy(S) THEN Outcome(st, <<>>, "ok", <<S.File, S.ArchiveSymbol>>)
      ELSE Outcome([st EXCEPT ![Sym.Name] = update(S, definedKind(Sym.Type), F, pos)],
                   <<>>, "ok", <<>>)

\* SymbolTable::addDefined(F, Sym), Sym being entry pos of F's symbol list.
addDefined(st, fs, F, pos) ==
  LET Sym == fs[F].syms[pos]
      S == st[Sym.Name]
      Kind == definedKind(Sym.Type)
      replaced == Outcome([st EXCEPT ![Sym.Name] = update(S, Kind, F, pos)], <<>>, "ok", <<>>)
  IN  IF WasInserted(st, Sym.Name) THEN replaced
      ELSE IF ~isDefined(S)
        THEN IF checkSymbolTypes(S, Sym.Type) = "mismatch"
               THEN mismatchOutcome(st, S, Sym.Name)
               ELSE replaced
      ELSE IF Sym.Weak THEN Outcome(st, <<>>, "ok", <<>>)
      ELSE IF S.Sym = 0 THEN Outcome(st, <<>>, "crash", <<>>)
      ELSE CASE resolveDefined(Sym.Weak, isWeak(fs, S)) = "replace" -> replaced
             [] resolveDefined(Sym.Weak, isWeak(fs, S)) = "duplicate" -> reportDuplicate(st, Sym.Name)
             [] OTHER -> Outcome(st, <<>>, "ok", <<>>)

\* An addUndefined that does not ask the archive about a Lazy entry.
addUndefined_ignoresLazy(st, fs, F, pos) ==
  LET Sym == fs[F].syms[pos]
      S == st[Sym.Name]
      Kind == undefinedKind(Sym.Type)
  IN  IF WasInserted(st, Sym.Name)
        THEN Outcome([st EXCEPT ![Sym.Name] = update(S, Kind, F, pos)], <<>>, "ok", <<>>)
      ELSE IF isDefined(S) /\ checkSymbolTypes(S, Sym.Type) = "mismatch"
        THEN mismatchOutcome(st, S, Sym.Name)
      ELSE Outcome(st, <<>>, "ok", <<>>)

\* An addUndefined that takes over an entry that is already Defined.
addUndefined_overwrites(st, fs, F, pos) ==
  LET Sym == fs[F].syms[pos]
      S == st[Sym.Name]
      Kind == undefinedKind(Sym.Type)
  IN  IF WasInserted(st, Sym.Name) \/ isDefined(S)
        THEN Outcome([st EXCEPT ![Sym.Name] = update(S, Kind, F, pos)], <<>>, "ok", <<>>)
      ELSE IF isLazy(S) THEN Outcome(st, <<>>, "ok", <<S.File, S.ArchiveSymbol>>)
      ELSE Outcome(st, <<>>, "ok", <<>>)

\* SymbolTable::addUndefined(F, Sym).
addUndefined(st, fs, F, pos) ==
  LET Sym == fs[F].syms[pos]
      S == st[Sym.Name]
      Kind == undefinedKind(Sym.Type)
  IN  IF WasInserted(st, Sym.Name)
        THEN Outcome([st EXCEPT ![Sym.Name] = update(S, Kind, F, pos)], <<>>, "ok", <<>>)
      ELSE IF isLazy(S) THEN Outcome(st, <<>>, "ok", <<S.File, S.ArchiveSymbol>>)
      ELSE IF isDefined(S) /\ checkSymbolTypes(S, Sym.Type) = "mismatch"
        THEN mismatchOutcome(st, S, Sym.Name)
      ELSE Outcome(st, <<>>, "ok", <<>>)

\* An addLazy that leaves an existing Undefined entry alone.
addLazy_ignoresUndefined(st, fs, F, cookie) ==
  LET Name == fs[F].dir[cookie].name
      S == st[Name]
  IN  IF WasInserted(st, Name)
        THEN Outcome([st EXCEPT ![Name] =
                        setArchiveSymbol(update(S, "Lazy", F, 0), cookie)], <<>>, "ok", <<>>)
      ELSE Outcome(st, <<>>, "ok", <<>>)

\* An addLazy that takes over an existing Undefined entry.
addLazy_overwrites(st, fs, F, cookie) ==
  LET Name == fs[F].dir[cookie].name
      S == st[Name]
  IN  IF WasInserted(st, Name) \/ isUndefined(S)
        THEN Outcome([st EXCEPT ![Name] =
                        setArchiveSymbol(update(S, "Lazy", F, 0), cookie)], <<>>, "ok", <<>>)
      ELSE Outcome(st, <<>>, "ok", <<>>)

\* SymbolTable::addLazy(F, Sym), Sym being entry cookie of F's directory.
addLazy(st, fs, F, cookie) ==
  LET Name == fs[F].dir[cookie].name
      S == st[Name]
  IN  IF WasInserted(st, Name)
        THEN Outcome([st EXCEPT ![Name] =
                        setArchiveSymbol(update(S, "Lazy", F, 0), cookie)], <<>>, "ok", <<>>)
      ELSE IF isUndefined(S) THEN Outcome(st, <<>>, "ok", <<F, cookie>>)
      ELSE Outcome(st, <<>>, "ok", <<>>)

\* SymbolTable::addDefinedGlobal(Name).
addDefinedGlobal(st, Name) ==
  LET S == st[Name]
  IN  IF WasInserted(st, Name)
        THEN Outcome([st EXCEPT ![Name] = update(S, "DefinedGlobal", 0, 0)], <<>>, "ok", <<>>)
      ELSE IF ~isFunction(S)
        THEN Outcome(st, <<<<"symbol type mismatch", Name>>>>, "ok", <<>>)
      ELSE Outcome(st, <<>>, "ok", <<>>)

\* SymbolTable::addUndefinedFunction(Name).
addUndefinedFunction(st, Name) ==
  LET S == st[Name]
  IN  IF WasInserted(st, Name)
        THEN Outcome([st EXCEPT ![Name] = update(S, "UndefinedFunction", 0, 0)], <<>>, "ok", <<>>)
      ELSE IF ~isFunction(S)
        THEN Outcome(st, <<<<"symbol type mismatch", Name>>>>, "ok", <<>>)
      ELSE Outcome(st, <<>>, "ok", <<>>)

\* A gathering that passes over the symbols without a file.
Undefs_skipsSynthetic(st, cfg) ==
  { n \in AllNames : /\ isUndefined(st[n])
                     /\ ~isLazy(st[n])
                     /\ st[n].File # 0
                     /\ n \notin cfg.AllowUndefinedSymbols }

\* A gathering that takes a Lazy symbol for an undefined one.
Undefs_countsLazy(st, cfg) ==
  { n \in AllNames : /\ isUndefined(st[n]) \/ isLazy(st[n])
                     /\ n \notin cfg.AllowUndefinedSymbols }

\* The symbols reportRemainingUndefines gathers.
Undefs(st, cfg) ==
  { n \in AllNames : /\ isUndefined(st[n])
                     /\ ~isLazy(st[n])
                     /\ n \notin cfg.AllowUndefinedSymbols }

\* -------------------------------------------------------------- InputFile

\* An ObjectFile as make<ObjectFile>() leaves it.  parent and member name the
\* archive and the member it was pulled from (0 for a command-line file).
\* extra is the number of local functions no symbol exports, memInitial is
\* memories()[0].Initial in pages, types is types().size(), tableInitial is
\* tables()[0].Limits.Initial, elems is elements()[0].Functions.size(),
\* dataSegments is dataSegments().size() and relocs is
\* CodeSection->Relocations.  (An object has at most one memory, table and
\* element segment: calculateOffsets ends the process on any other.)
NewObject(parent, member) ==
  [kind |-> "obj", syms |-> <<>>, dir |-> <<>>, Seen |-> {},
   parent |-> parent, member |-> member, extra |-> 0, memInitial |-> 0,
   types |-> 0, tableInitial |-> 0, elems |-> 0, dataSegments |-> 0, relocs |-> <<>>,
   debugNames |-> <<>>,
   TypeIndexOffset |-> U32(0), FunctionIndexOffset |-> U32(0),
   GlobalIndexOffset |-> U32(0), DataOffset |-> U32(0), CodeSectionOffset |-> U32(0)]

\* An ArchiveFile with its directory; Seen holds the members already pulled.
NewArchive(dir) ==
  [kind |-> "archive", syms |-> <<>>, dir |-> dir, Seen |-> {},
   parent |-> 0, member |-> 0, extra |-> 0, memInitial |-> 0,
   types |-> 0, tableInitial |-> 0, elems |-> 0, dataSegments |-> 0, relocs |-> <<>>,
   debugNames |-> <<>>,
   TypeIndexOffset |-> U32(0), FunctionIndexOffset |-> U32(0),
   GlobalIndexOffset |-> U32(0), DataOffset |-> U32(0), CodeSectionOffset |-> U32(0)]

SymNames(f) == { f.syms[i].Name : i \in DOMAIN f.syms }
PositionsOfType(f, T) == { i \in DOMAIN f.syms : f.syms[i].Type = T }

\* ObjectFile::FunctionImports / GlobalImports: the file's import symbols.
NumFunctionImports(f) == Cardinality(PositionsOfType(f, "FUNCTION_IMPORT"))
NumGlobalImports(f) == Cardinality(PositionsOfType(f, "GLOBAL_IMPORT"))

\* getWasmObj()->functions().size() and globals().size().
NumFunctions(f) == f.extra + Cardinality(PositionsOfType(f, "FUNCTION_EXPORT"))
NumGlobals(f) == Cardinality(PositionsOfType(f, "GLOBAL_EXPORT"))

\* getWasmObj()->exports().size(): the exports are the export symbols.
NumExports(f) == Cardinality({ i \in DOMAIN f.syms : f.syms[i].Type \in ExportTypes })

\* ObjectFile::CodeSection is set: an object with functions has a code
\* section.
HasCode(f) == NumFunctions(f) > 0

\* The size in bytes of the code section's payload (the bodies, without the
\* function count): every body is taken as the shortest one, a size byte, a
\* local count and the end opcode.
CodeSize(f) == 3 * NumFunctions(f)

\* Export.Index of the export a symbol record names: a file-local index in the
\* function (global) index space, which counts the file's imports first.  The
\* unexported functions are the file's first local functions.
ExportIndex(f, pos) ==
  IF f.syms[pos].Type = "FUNCTION_EXPORT"
    THEN NumFunctionImports(f) + f.extra
           + Cardinality({ i \in PositionsOfType(f, "FUNCTION_EXPORT") : i < pos })
    ELSE NumGlobalImports(f)
           + Cardinality({ i \in PositionsOfType(f, "GLOBAL_EXPORT") : i < pos })

\* The names an archive's directory lists for a member: what the member defines.
MustDefine(fs, f) ==
  IF f.parent = 0 THEN {}
  ELSE { fs[f.parent].dir[i].name :
           i \in { j \in DOMAIN fs[f.parent].dir : fs[f.parent].dir[j].member = f.member } }

Defines(f) == { f.syms[i].Name : i \in { j \in DOMAIN f.syms : f.syms[j].Type \in ExportTypes } }

\* The wasm symbols an object's symbol list may continue with.  The reader
\* lists the imports before the exports and a name once.  An archive member
\* exports exactly the names the directory lists for it.
NextSymbols(fs, id) ==
  LET f == fs[id]
      must == MustDefine(fs, f)
      left == must \ Defines(f)
  IN  { ws \in WasmSymbols :
          /\ Len(f.syms) < MaxSyms
          /\ ws.Name \notin SymNames(f)
          /\ ws.Type \in ImportTypes => Defines(f) = {}
          /\ f.parent # 0 =>
                IF ws.Type \in ExportTypes
                  THEN ws.Name \in must
                  ELSE ws.Name \notin must /\ Len(f.syms) + 1 + Cardinality(left) <= MaxSyms }

\* ArchiveFile::addMember(Sym): pull the member the cookie names, once; then
\* LinkerDriver::addArchiveBuffer makes the ObjectFile and Symtab->addFile
\* begins its parse.
addMember(fs, stk, a, cookie) ==
  LET m == fs[a].dir[cookie].member
  IN  IF m \in fs[a].Seen
        THEN [files |-> fs, stack |-> stk]
        ELSE [files |-> Append([fs EXCEPT ![a].Seen = @ \cup {m}], NewObject(a, m)),
              stack |-> Append(stk, [file |-> Len(fs) + 1, pos |-> 0])]

\* ----------------------------------------------------------------- driver

Init ==
  /\ pc = "link"
  /\ Config = [Relocatable |-> FALSE, AllowUndefined |-> FALSE,
               AllowUndefinedSymbols |-> {}, Entry |-> "", ZStackSize |-> U32(0),
               EmitRelocs |-> FALSE, StripDebug |-> FALSE, StripAll |-> FALSE]
  /\ ErrorCount = 0
  /\ errors = {}
  /\ fatalMsg = ""
  /\ Symtab = [n \in AllNames |-> Absent]
  /\ Files = <<>>
  /\ files = <<>>
  /\ stack = <<>>
  /\ ObjectFiles = <<>>
  /\ SyntheticGlobals = <<>>
  /\ FunctionImports = <<>>
  /\ GlobalImports = <<>>
  /\ TotalFunctions = U32(0)
  /\ TotalGlobals = U32(0)
  /\ TotalMemoryPages = U32(0)
  /\ TotalTypes = U32(0)
  /\ TotalTableLength = U32(0)
  /\ TotalExports = U32(0)
  /\ TotalElements = U32(0)
  /\ TotalDataSegments = U32(0)
  /\ TotalCodeRelocations = U32(0)
  /\ sections = <<>>
  /\ leb = NoField
  /\ outputFile = "untouched"
  /\ linkResult = "none"
  /\ asserts = {}
  /\ defOrder = [n \in AllNames |-> <<>>]
  /\ asked = [n \in AllNames |-> 0]

\* LinkerDriver::addSyntheticGlobal(Name, Value) on table st with list globals.
addSyntheticGlobal(st, globals, Name, Value) ==
  LET r == addDefinedGlobal(st, Name)
      S == r.st[Name]
  IN  [st |-> [r.st EXCEPT ![Name] = setOutputIndex(S, U32(Len(globals)))],
       errs |-> r.errs,
       asserts |-> setOutputIndexAssert(S),
       globals |-> Append(globals, [sym |-> Name, init |-> Value])]

\* LinkerDriver::link up to createFiles: the options are read into Config;
\* an executable gets the synthetic entry symbol and __stack_pointer.  (The
\* command lines of Configs give no --entry, --emit-relocs, --strip-debug,
\* --strip-all or -z stack-size.)
LinkSetup ==
  /\ pc = "link"
  /\ \E cfg \in Configs :
       LET Entry == IF ~cfg.Relocatable THEN DefaultEntry ELSE ""
           r1 == addUndefinedFunction(Symtab, Entry)
           r2 == addSyntheticGlobal(r1.st, SyntheticGlobals, StackPointer, U32(0))
       IN  /\ Config' = [Relocatable |-> cfg.Relocatable,
                         AllowUndefined |-> cfg.AllowUndefined,
                         AllowUndefinedSymbols |-> cfg.AllowUndefinedSymbols,
                         Entry |-> Entry,
                         ZStackSize |-> U32(WasmPageSize),
                         EmitRelocs |-> FALSE, StripDebug |-> FALSE, StripAll |-> FALSE]
           /\ IF ~cfg.Relocatable
                THEN /\ Symtab' = r2.st
                     /\ SyntheticGlobals' = r2.globals
                     /\ ErrorCount' = ErrorCount + Len(r1.errs) + Len(r2.errs)
                     /\ errors' = errors \cup Range(r1.errs \o r2.errs)
                     /\ asserts' = asserts \cup r2.asserts
                ELSE UNCHANGED <<Symtab, SyntheticGlobals, ErrorCount, errors, asserts>>
  /\ pc' = "createFiles"
  /\ UNCHANGED <<leb, totalVars, sections, fatalMsg, Files, files, stack, ObjectFiles, defOrder, asked,
                 writerVars, linkResult>>

\* LinkerDriver::createFiles and the ErrorCount test after it: a path that
\* cannot be read is an error(), and link returns before any file is parsed.
\* (Which files the command line names is drawn as the loop of link reaches
\* them; Files holds the ones reached.)
CreateFiles ==
  /\ pc = "createFiles"
  /\ \E unreadable \in BOOLEAN :
       IF unreadable
         THEN /\ ErrorCount' = ErrorCount + 1
              /\ errors' = errors \cup {<<"cannot open", "input">>}
              /\ pc' = "return"
         ELSE /\ UNCHANGED <<ErrorCount, errors>>
              /\ pc' = "addFiles"
  /\ UNCHANGED <<leb, totalVars, sections, Config, fatalMsg, symVars, SyntheticGlobals, writerVars, linkResult, asserts>>

\* The command line may go on with a file of kind k.
MayAdd(k) ==
  \E line \in CommandLines :
     /\ Len(line) > Len(Files)
     /\ SubSeq(line, 1, Len(Files) + 1) = Append(Files, k)

Top == stack[Len(stack)]
Pop(stk) == SubSeq(stk, 1, Len(stk) - 1)

\* The loop of link over Files: Symtab.addFile(F) begins the parse of the
\* next command-line file, here an object.
StartObject ==
  /\ pc = "addFiles" /\ stack = <<>> /\ MayAdd("obj")
  /\ Files' = Append(Files, "obj")
  /\ files' = Append(files, NewObject(0, 0))
  /\ stack' = <<[file |-> Len(files) + 1, pos |-> 0]>>
  /\ UNCHANGED <<leb, totalVars, sections, pc, Config, ErrorCount, errors, fatalMsg, Symtab, ObjectFiles, SyntheticGlobals,
                 writerVars, linkResult, asserts, defOrder, asked>>

\* The same for an archive: its directory is read.
StartArchive ==
  /\ pc = "addFiles" /\ stack = <<>> /\ MayAdd("archive")
  /\ Files' = Append(Files, "archive")
  /\ \E dir \in ArchiveDirs : files' = Append(files, NewArchive(dir))
  /\ stack' = <<[file |-> Len(files) + 1, pos |-> 1]>>
  /\ UNCHANGED <<leb, totalVars, sections, pc, Config, ErrorCount, errors, fatalMsg, Symtab, ObjectFiles, SyntheticGlobals,
                 writerVars, linkResult, asserts, defOrder, asked>>

\* What a symbol-table call made during a parse does to the link: r is its
\* outcome, fs the files and stk the stack as the call found them.
Apply(r, fs, stk, name) ==
  /\ ErrorCount' = ErrorCount + Len(r.errs)
  /\ errors' = errors \cup Range(r.errs)
  /\ IF r.out = "ok"
       THEN /\ Symtab' = r.st
            /\ UNCHANGED <<leb, totalVars, sections, pc, fatalMsg>>
            /\ IF r.load = <<>>
                 THEN files' = fs /\ stack' = stk /\ asked' = asked
                 ELSE LET m == addMember(fs, stk, r.load[1], r.load[2])
                      IN  /\ files' = m.files
                          /\ stack' = m.stack
                          /\ asked' = [asked EXCEPT ![name] = @ + 1]
       ELSE /\ pc' = "aborted"
            /\ fatalMsg' = IF r.out = "fatal" THEN "symbol type mismatch" ELSE "crash"
            /\ files' = fs /\ stack' = stk
            /\ UNCHANGED <<leb, totalVars, sections, Symtab, asked>>

\* ObjectFile::parse, one symbol of the object on top of the stack: an export
\* goes to addDefined, an import to addUndefined.
ParseSymbol ==
  /\ pc = "addFiles" /\ stack # <<>> /\ files[Top.file].kind = "obj"
  /\ \E ws \in NextSymbols(files, Top.file) :
       LET F == Top.file
           pos == Len(files[F].syms) + 1
           fs == [files EXCEPT ![F].syms = Append(@, ws)]
           r == IF ws.Type \in ExportTypes
                  THEN addDefined(Symtab, fs, F, pos)
                  ELSE addUndefined(Symtab, fs, F, pos)
       IN  /\ Apply(r, fs, stack, ws.Name)
           /\ defOrder' = IF ws.Type \in ExportTypes
                            THEN [defOrder EXCEPT ![ws.Name] = Append(@, F)]
                            ELSE defOrder
  /\ UNCHANGED <<leb, totalVars, sections, Config, Files, ObjectFiles, SyntheticGlobals, writerVars,
                 linkResult, asserts>>

\* An addFile that puts the parsed object at the front of ObjectFiles.
EndParse_listsInFront ==
  /\ pc = "addFiles" /\ stack # <<>> /\ files[Top.file].kind = "obj"
  /\ MustDefine(files, files[Top.file]) \subseteq Defines(files[Top.file])
  /\ ObjectFiles' = <<Top.file>> \o ObjectFiles
  /\ stack' = Pop(stack)
  /\ UNCHANGED <<leb, totalVars, sections, pc, Config, ErrorCount, errors, fatalMsg, Symtab, Files, files, SyntheticGlobals,
                 writerVars, linkResult, asserts, defOrder, asked>>

\* ObjectFile::parse returns and SymbolTable::addFile appends the object to
\* ObjectFiles.
EndParse ==
  /\ pc = "addFiles" /\ stack # <<>> /\ files[Top.file].kind = "obj"
  /\ MustDefine(files, files[Top.file]) \subseteq Defines(files[Top.file])
  /\ ObjectFiles' = Append(ObjectFiles, Top.file)
  /\ stack' = Pop(stack)
  /\ UNCHANGED <<leb, totalVars, sections, pc, Config, ErrorCount, errors, fatalMsg, Symtab, Files, files, SyntheticGlobals,
                 writerVars, linkResult, asserts, defOrder, asked>>

\* ArchiveFile::parse, one entry of the directory: addLazy.
ArchiveStep ==
  /\ pc = "addFiles" /\ stack # <<>> /\ files[Top.file].kind = "archive"
  /\ Top.pos <= Len(files[Top.file].dir)
  /\ LET F == Top.file
         r == addLazy(Symtab, files, F, Top.pos)
         stk == [stack EXCEPT ![Len(stack)].pos = @ + 1]
     IN  Apply(r, files, stk, files[F].dir[Top.pos].name)
  /\ UNCHANGED <<leb, totalVars, sections, Config, Files, ObjectFiles, SyntheticGlobals, writerVars,
                 linkResult, asserts, defOrder>>

\* ArchiveFile::parse returns; addFile does not list an archive.
EndArchive ==
  /\ pc = "addFiles" /\ stack # <<>> /\ files[Top.file].kind = "archive"
  /\ Top.pos > Len(files[Top.file].dir)
  /\ stack' = Pop(stack)
  /\ UNCHANGED <<leb, totalVars, sections, pc, Config, ErrorCount, errors, fatalMsg, Symtab, files, ObjectFiles,
                 SyntheticGlobals, writerVars, linkResult, asserts, defOrder, asked, Files>>

\* The loop over Files ends.
FilesDone ==
  /\ pc = "addFiles" /\ stack = <<>> /\ Files \in CommandLines
  /\ pc' = "report"
  /\ UNCHANGED <<leb, totalVars, sections, Config, ErrorCount, errors, fatalMsg, symVars, SyntheticGlobals, writerVars,
                 linkResult, asserts>>

\* The end of LinkerDriver::link: reportRemainingUndefines, unless
\* AllowUndefined or Relocatable, whose fatal("link failed") ends the process;
\* then writeResult.
ReportRemainingUndefines ==
  /\ pc = "report"
  /\ IF ~Config.AllowUndefined /\ ~Config.Relocatable /\ Undefs(Symtab, Config) # {}
       THEN pc' = "aborted" /\ fatalMsg' = "link failed"
       ELSE pc' = "calculateImports" /\ fatalMsg' = fatalMsg
  /\ UNCHANGED <<leb, totalVars, sections, Config, ErrorCount, errors, symVars, SyntheticGlobals, writerVars, linkResult,
                 asserts>>

\* ----------------------------------------------------------------- Writer

\* Counts of local functions without a symbol that the objects of a link
\* may all have.
ExtraFunctions == {0, 1}

\* File->getSymbols() of every object, in ObjectFiles order: the names of the
\* Symbols, file by file.
RECURSIVE SymbolRefs(_, _)
SymbolRefs(fs, objs) ==
  IF objs = <<>> THEN <<>>
  ELSE [i \in DOMAIN fs[Head(objs)].syms |-> fs[Head(objs)].syms[i].Name]
         \o SymbolRefs(fs, Tail(objs))

\* The result of calculateImports with the assertions A that failed on the
\* way to it.
WithAsserts(r, A) == [r EXCEPT !.asserts = @ \cup A]

\* A calculateImports that does not test hasOutputIndex.
RECURSIVE calculateImports_noIndexTest(_, _, _, _)
calculateImports_noIndexTest(refs, st, FI, GI) ==
  IF refs = <<>>
    THEN [st |-> st, FunctionImports |-> FI, GlobalImports |-> GI, asserts |-> {}]
  ELSE LET Sym == st[Head(refs)]
       IN  IF isDefined(Sym)
             THEN calculateImports_noIndexTest(Tail(refs), st, FI, GI)
           ELSE IF isFunction(Sym)
             THEN WithAsserts(calculateImports_noIndexTest(Tail(refs),
                    [st EXCEPT ![Head(refs)] = setOutputIndex(Sym, U32(Len(FI)))],
                    Append(FI, Head(refs)), GI), setOutputIndexAssert(Sym))
           ELSE WithAsserts(calculateImports_noIndexTest(Tail(refs),
                    [st EXCEPT ![Head(refs)] = setOutputIndex(Sym, U32(Len(GI)))],
                    FI, Append(GI, Head(refs))), setOutputIndexAssert(Sym))

\* Writer::calculateImports over the symbol references refs.
RECURSIVE calculateImports(_, _, _, _)
calculateImports(refs, st, FI, GI) ==
  IF refs = <<>>
    THEN [st |-> st, FunctionImports |-> FI, GlobalImports |-> GI, asserts |-> {}]
  ELSE LET Sym == st[Head(refs)]
       IN  IF hasOutputIndex(Sym) \/ isDefined(Sym)
             THEN calculateImports(Tail(refs), st, FI, GI)
           ELSE IF isFunction(Sym)
             THEN WithAsserts(calculateImports(Tail(refs),
                    [st EXCEPT ![Head(refs)] = setOutputIndex(Sym, U32(Len(FI)))],
                    Append(FI, Head(refs)), GI), setOutputIndexAssert(Sym))
           ELSE WithAsserts(calculateImports(Tail(refs),
                    [st EXCEPT ![Head(refs)] = setOutputIndex(Sym, U32(Len(GI)))],
                    FI, Append(GI, Head(refs))), setOutputIndexAssert(Sym))

CalculateImports ==
  /\ pc = "calculateImports"
  /\ LET r == calculateImports(SymbolRefs(files, ObjectFiles), Symtab, FunctionImports,
                               GlobalImports)
     IN  /\ Symtab' = r.st
         /\ FunctionImports' = r.FunctionImports
         /\ GlobalImports' = r.GlobalImports
         /\ asserts' = asserts \cup r.asserts
  /\ pc' = "calculateOffsets"
  /\ UNCHANGED <<leb, totalVars, sections, Config, ErrorCount, errors, fatalMsg, Files, files, stack, ObjectFiles,
                 SyntheticGlobals, TotalFunctions, TotalGlobals, TotalMemoryPages,
                 outputFile, linkResult, defOrder, asked>>

\* An offset that forgets to take the file's own imports off.
FunctionIndexOffsetOf_noImportAdjust(nImports, nFileImports, total) ==
  Add32(U32(nImports), total)

\* Writer::calculateOffsets, the function index of one object.
FunctionIndexOffsetOf(nImports, nFileImports, total) ==
  Add32(Sub32(U32(nImports), U32(nFileImports)), total)

\* A global offset that forgets to take the file's own imports off.
GlobalIndexOffsetOf_noImportAdjust(nImports, nFileImports, total) ==
  Add32(U32(nImports), total)

\* Writer::calculateOffsets, the global index of one object.
GlobalIndexOffsetOf(nImports, nFileImports, total) ==
  Add32(Sub32(U32(nImports), U32(nFileImports)), total)

\* Writer::calculateOffsets, the totals T of the section contents once the
\* object f is counted.
addTotals(T, f) ==
  [TotalTypes |-> Add32(T.TotalTypes, U32(f.types)),
   TotalTableLength |-> Add32(T.TotalTableLength, U32(f.tableInitial)),
   TotalExports |-> Add32(T.TotalExports, U32(NumExports(f))),
   TotalElements |-> Add32(T.TotalElements, U32(f.elems)),
   TotalDataSegments |-> Add32(T.TotalDataSegments, U32(f.dataSegments)),
   TotalCodeRelocations |-> IF HasCode(f)
                              THEN Add32(T.TotalCodeRelocations, U32(Len(f.relocs)))
                              ELSE T.TotalCodeRelocations]

\* Writer::calculateOffsets: the loop over ObjectFiles.
RECURSIVE calculateOffsets(_, _, _, _, _, _)
calculateOffsets(objs, fs, cfg, TF, TG, T) ==
  IF objs = <<>>
    THEN [files |-> fs, TotalFunctions |-> TF, TotalGlobals |-> TG, totals |-> T]
  ELSE LET id == Head(objs)
           f == fs[id]
           f0 == [f EXCEPT !.TypeIndexOffset = T.TotalTypes]
           f1 == [f0 EXCEPT !.FunctionIndexOffset =
                     FunctionIndexOffsetOf(Len(FunctionImports), NumFunctionImports(f), TF)]
           f2 == IF cfg.Relocatable
                   THEN [f1 EXCEPT !.GlobalIndexOffset =
                           GlobalIndexOffsetOf(Len(GlobalImports), NumGlobalImports(f), TG)]
                   ELSE f1
       IN  calculateOffsets(Tail(objs), [fs EXCEPT ![id] = f2], cfg,
             Add32(TF, U32(NumFunctions(f))),
             IF cfg.Relocatable THEN Add32(TG, U32(NumGlobals(f))) ELSE TG,
             addTotals(T, f))

CalculateOffsets ==
  /\ pc = "calculateOffsets"
  /\ \E x \in ExtraFunctions :
       LET fs == [i \in DOMAIN files |->
                   IF files[i].kind = "obj" THEN [files[i] EXCEPT !.extra = x] ELSE files[i]]
           r == calculateOffsets(ObjectFiles, fs, Config, TotalFunctions,
                                 U32(Len(SyntheticGlobals)),
                                 [TotalTypes |-> TotalTypes,
                                  TotalTableLength |-> TotalTableLength,
                                  TotalExports |-> TotalExports,
                                  TotalElements |-> TotalElements,
                                  TotalDataSegments |-> TotalDataSegments,
                                  TotalCodeRelocations |-> TotalCodeRelocations])
       IN  /\ files' = r.files
           /\ TotalFunctions' = r.TotalFunctions
           /\ TotalGlobals' = r.TotalGlobals
           /\ TotalTypes' = r.totals.TotalTypes
           /\ TotalTableLength' = r.totals.TotalTableLength
           /\ TotalExports' = r.totals.TotalExports
           /\ TotalElements' = r.totals.TotalElements
           /\ TotalDataSegments' = r.totals.TotalDataSegments
           /\ TotalCodeRelocations' = r.totals.TotalCodeRelocations
  /\ pc' = "assignSymbolIndexes"
  /\ UNCHANGED <<leb, sections, Config, ErrorCount, errors, fatalMsg, Symtab, Files, stack, ObjectFiles,
                 SyntheticGlobals, FunctionImports, GlobalImports, TotalMemoryPages,
                 outputFile, linkResult, asserts, defOrder, asked>>

\* The output index assignSymbolIndexes gives a defined symbol of an object:
\* the owning file's offset plus the export's file-local index.
DefinedIndex(fs, Sym) ==
  IF isFunction(Sym)
    THEN Add32(fs[Sym.File].FunctionIndexOffset, U32(ExportIndex(fs[Sym.File], Sym.Sym)))
    ELSE Add32(fs[Sym.File].GlobalIndexOffset, U32(ExportIndex(fs[Sym.File], Sym.Sym)))

\* Writer::assignSymbolIndexes over the symbol references refs.
RECURSIVE assignSymbolIndexes(_, _, _)
assignSymbolIndexes(refs, fs, st) ==
  IF refs = <<>> THEN [st |-> st, asserts |-> {}]
  ELSE LET Sym == st[Head(refs)]
       IN  IF hasOutputIndex(Sym) \/ ~isDefined(Sym)
             THEN assignSymbolIndexes(Tail(refs), fs, st)
           ELSE IF Sym.File # 0 /\ fs[Sym.File].kind = "obj"
             THEN WithAsserts(assignSymbolIndexes(Tail(refs), fs,
                    [st EXCEPT ![Head(refs)] = setOutputIndex(Sym, DefinedIndex(fs, Sym))]),
                    setOutputIndexAssert(Sym))
           ELSE assignSymbolIndexes(Tail(refs), fs, st)

AssignSymbolIndexes ==
  /\ pc = "assignSymbolIndexes"
  /\ LET r == assignSymbolIndexes(SymbolRefs(files, ObjectFiles), files, Symtab)
     IN  /\ Symtab' = r.st
         /\ asserts' = asserts \cup r.asserts
  /\ pc' = "layoutMemory"
  /\ UNCHANGED <<leb, totalVars, sections, Config, ErrorCount, errors, fatalMsg, Files, files, stack, ObjectFiles,
                 SyntheticGlobals, writerVars, linkResult, defOrder, asked>>

\* round_up_to_page_size on a 32-bit word.
round_up_to_page_size(size) == <<Add32(size, U32(WasmPageSize - 1))[1], 0>>

\* memories()[0].Initial * WasmPageSize in 32 bits.
InitialBytes(f) == <<f.memInitial % Limb, 0>>

\* Writer::layoutMemory, the loop over ObjectFiles: DataOffset of every
\* object with a non-empty memory, and the final MemoryPtr.
RECURSIVE layoutObjects(_, _, _)
layoutObjects(objs, fs, MemoryPtr) ==
  IF objs = <<>> THEN [files |-> fs, MemoryPtr |-> MemoryPtr]
  ELSE IF fs[Head(objs)].memInitial = 0
    THEN layoutObjects(Tail(objs), fs, MemoryPtr)
    ELSE layoutObjects(Tail(objs), [fs EXCEPT ![Head(objs)].DataOffset = MemoryPtr],
                       Add32(MemoryPtr, InitialBytes(fs[Head(objs)])))

\* Writer::layoutMemory, the stack: MemoryPtr once the stack is placed.
StackTop(cfg) ==
  IF cfg.Relocatable THEN U32(WasmPageSize)
  ELSE Add32(U32(WasmPageSize), cfg.ZStackSize)

\* Writer::layoutMemory, the result: MemSize / WasmPageSize.
PagesOf(MemoryPtr) == <<0, round_up_to_page_size(MemoryPtr)[1]>>

LayoutMemory ==
  /\ pc = "layoutMemory"
  /\ LET r == layoutObjects(ObjectFiles, files, StackTop(Config))
     IN  /\ files' = r.files
         /\ TotalMemoryPages' = PagesOf(r.MemoryPtr)
  /\ SyntheticGlobals' = IF Config.Relocatable THEN SyntheticGlobals
                         ELSE [SyntheticGlobals EXCEPT ![1].init = StackTop(Config)]
  /\ pc' = "openFile"
  /\ UNCHANGED <<leb, totalVars, sections, Config, ErrorCount, errors, fatalMsg, Symtab, Files, stack, ObjectFiles,
                 FunctionImports, GlobalImports, TotalFunctions, TotalGlobals,
                 outputFile, linkResult, asserts, defOrder, asked>>

\* Writer::openFile and the ErrorCount test after it: the output path is
\* removed and opened; a failure to open is an error().
OpenFile ==
  /\ pc = "openFile"
  /\ \E opened \in BOOLEAN :
       /\ outputFile' = IF opened THEN "created" ELSE "removed"
       /\ ErrorCount' = IF opened THEN ErrorCount ELSE ErrorCount + 1
       /\ errors' = IF opened THEN errors ELSE errors \cup {<<"failed to open", "output">>}
       /\ pc' = IF ErrorCount' > 0 THEN "return" ELSE "writeSections"
  /\ UNCHANGED <<leb, totalVars, sections, Config, fatalMsg, symVars, SyntheticGlobals, FunctionImports,
                 GlobalImports, TotalFunctions, TotalGlobals, TotalMemoryPages,
                 linkResult, asserts>>

\* The position in f.syms of the file's i-th import (from 0) of type T.
ImportAt(f, T, i) ==
  CHOOSE p \in PositionsOfType(f, T) :
    Cardinality({ q \in PositionsOfType(f, T) : q < p }) = i

\* ObjectFile::relocateTypeIndex.
relocateTypeIndex(f, i) == Add32(f.TypeIndexOffset, U32(i))

\* ObjectFile::relocateFunctionIndex: an import of the file goes to the output
\* index of its symbol; a function of the file goes to the index
\* assignSymbolIndexes gives it, the file's offset plus the file-local index.
relocateFunctionIndex(st, f, i) ==
  IF i < NumFunctionImports(f)
    THEN st[f.syms[ImportAt(f, "FUNCTION_IMPORT", i)].Name].OutputIndex
    ELSE Add32(f.FunctionIndexOffset, U32(i))

\* ObjectFile::isImportedFunction: the index is below the file's function
\* imports.
isImportedFunction(f, i) == i < NumFunctionImports(f)

\* ObjectFile::isResolvedFunctionImport: the index is a function import of the
\* file whose symbol is defined.
isResolvedFunctionImport(st, f, i) ==
  /\ isImportedFunction(f, i)
  /\ isDefined(st[f.syms[ImportAt(f, "FUNCTION_IMPORT", i)].Name])

\* ObjectFile::relocateGlobalIndex, the same for the global index space.
relocateGlobalIndex(st, f, i) ==
  IF i < NumGlobalImports(f)
    THEN st[f.syms[ImportAt(f, "GLOBAL_IMPORT", i)].Name].OutputIndex
    ELSE Add32(f.GlobalIndexOffset, U32(i))

\* ObjectFile::relocateTableIndex.
relocateTableIndex(f, i) == U32(i)

\* ObjectFile::relocateCodeOffset.
relocateCodeOffset(f, off) == Add32(f.CodeSectionOffset, U32(off))

\* The relocation types whose reloc.CODE entry carries an addend.
AddendTypes == {"GLOBAL_ADDR_LEB", "GLOBAL_ADDR_SLEB", "GLOBAL_ADDR_I32"}

\* A section of the output: its id (the name, for a custom section) and the
\* entries of its body the model follows.
Section(Type, body) == [Type |-> Type, body |-> body]

\* Writer::writeImportSection.  Sym->getFile() of every import has to be an
\* ObjectFile: the cast of any other is dereferenced.
writeImportSection(st, fs, FI, GI) ==
  LET all == FI \o GI
      bad == \E i \in DOMAIN all : st[all[i]].File = 0 \/ fs[st[all[i]].File].kind # "obj"
  IN  IF all = <<>> THEN [out |-> "ok", secs |-> <<>>]
      ELSE IF bad THEN [out |-> "crash", secs |-> <<>>]
      ELSE [out |-> "ok",
            secs |-> <<Section("IMPORT",
                        [i \in DOMAIN all |->
                           [Field |-> all[i],
                            Kind |-> IF i <= Len(FI) THEN "FUNCTION" ELSE "GLOBAL"]])>>]

\* Writer::writeGlobalSection: the synthetic globals, then under Relocatable
\* the globals of every object.
RECURSIVE ObjectGlobalEntries(_, _)
ObjectGlobalEntries(fs, objs) ==
  IF objs = <<>> THEN <<>>
  ELSE [i \in 1..NumGlobals(fs[Head(objs)]) |-> [file |-> Head(objs), global |-> i - 1]]
         \o ObjectGlobalEntries(fs, Tail(objs))

writeGlobalSection(cfg, fs, objs, globals) ==
  <<Section("GLOBAL",
      [i \in DOMAIN globals |-> [file |-> 0, global |-> i - 1]]
        \o (IF cfg.Relocatable THEN ObjectGlobalEntries(fs, objs) ELSE <<>>))>>

\* Writer::writeExportSection, the exports of the input objects, each written
\* as the object holds it.
RECURSIVE ObjectExportEntries(_, _)
ObjectExportEntries(fs, objs) ==
  IF objs = <<>> THEN <<>>
  ELSE LET f == fs[Head(objs)]
           exps == SelectSeq([i \in DOMAIN f.syms |-> i], LAMBDA i : f.syms[i].Type \in ExportTypes)
       IN  [k \in DOMAIN exps |->
              [Name |-> f.syms[exps[k]].Name,
               Kind |-> IF f.syms[exps[k]].Type = "FUNCTION_EXPORT" THEN "FUNCTION" ELSE "GLOBAL",
               Index |-> U32(ExportIndex(f, exps[k]))]]
             \o ObjectExportEntries(fs, Tail(objs))

\* Writer::writeExportSection.  Symtab->find(Entry) of a name that was never
\* inserted is null and is dereferenced; getOutputIndex asserts that the index
\* is set.  Config->ExportEntryAs is never assigned: the name is empty.
writeExportSection(cfg, st, fs, objs, TE) ==
  LET ExportMemory == ~cfg.Relocatable
      ExportOther == cfg.Relocatable
      ExportMain == cfg.Entry # ""
      none == ~ExportMemory /\ ~ExportMain /\ (~ExportOther \/ TE = U32(0))
      Sym == st[cfg.Entry]
      body == (IF ExportMemory
                 THEN <<[Name |-> "memory", Kind |-> "MEMORY", Index |-> U32(0)]>> ELSE <<>>)
              \o (IF ExportMain
                    THEN <<[Name |-> "", Kind |-> "FUNCTION", Index |-> Sym.OutputIndex]>>
                    ELSE <<>>)
              \o (IF ExportOther THEN ObjectExportEntries(fs, objs) ELSE <<>>)
  IN  IF none THEN [out |-> "ok", secs |-> <<>>, asserts |-> {}]
      ELSE IF ExportMain /\ Sym.kind = "Absent"
        THEN [out |-> "crash", secs |-> <<>>, asserts |-> {}]
      ELSE IF ExportMain /\ ~isFunction(Sym)
        THEN [out |-> "fatal", secs |-> <<>>, asserts |-> {}]
      ELSE [out |-> "ok", secs |-> <<Section("EXPORT", body)>>,
            asserts |-> IF ExportMain /\ ~Sym.OutputIndexSet THEN {"getOutputIndex"} ELSE {}]

\* Writer::writeCodeSection, File->CodeSectionOffset of every object with a
\* code section: tell is OS.tell() - ContentsStart.
RECURSIVE codeOffsets(_, _, _)
codeOffsets(objs, fs, tell) ==
  IF objs = <<>> THEN fs
  ELSE IF ~HasCode(fs[Head(objs)]) THEN codeOffsets(Tail(objs), fs, tell)
  ELSE codeOffsets(Tail(objs), [fs EXCEPT ![Head(objs)].CodeSectionOffset = tell],
                   Add32(tell, U32(CodeSize(fs[Head(objs)]))))

\* Writer::writeRelocSections, the entry written for the relocation R of f.
relocEntry(st, f, R) ==
  [Type |-> R.Type,
   Offset |-> relocateCodeOffset(f, R.Offset),
   Index |-> CASE R.Type = "TYPE_INDEX_LEB" -> relocateTypeIndex(f, R.Index)
               [] R.Type = "FUNCTION_INDEX_LEB" -> relocateFunctionIndex(st, f, R.Index)
               [] R.Type \in {"TABLE_INDEX_I32", "TABLE_INDEX_SLEB"} ->
                    relocateTableIndex(f, R.Index)
               [] OTHER -> relocateGlobalIndex(st, f, R.Index),
   Addend |-> IF R.Type \in AddendTypes THEN R.Addend ELSE 0]

RECURSIVE relocEntries(_, _, _)
relocEntries(st, fs, objs) ==
  IF objs = <<>> THEN <<>>
  ELSE LET f == fs[Head(objs)]
       IN  (IF HasCode(f) THEN [i \in DOMAIN f.relocs |-> relocEntry(st, f, f.relocs[i])]
            ELSE <<>>)
             \o relocEntries(st, fs, Tail(objs))

\* A writeRelocSections without the early return.
writeRelocSections_noEarlyReturn(st, fs, objs, TCR) ==
  <<Section("reloc.CODE", relocEntries(st, fs, objs))>>

\* Writer::writeRelocSections.
writeRelocSections(st, fs, objs, TCR) ==
  IF TCR = U32(0) THEN <<>>
  ELSE <<Section("reloc.CODE", relocEntries(st, fs, objs))>>

\* The DEBUG_FUNCTION_NAME symbols of every object, in ObjectFiles order and in
\* the order of each object's symbols.
RECURSIVE DebugRefs(_, _)
DebugRefs(fs, objs) ==
  IF objs = <<>> THEN <<>>
  ELSE [i \in DOMAIN fs[Head(objs)].debugNames |->
          [File |-> Head(objs), Name |-> fs[Head(objs)].debugNames[i].Name,
           Index |-> fs[Head(objs)].debugNames[i].Index]]
         \o DebugRefs(fs, Tail(objs))

\* Symtab->find(Name) found a symbol.
Found(st, Name) == st[Name].kind # "Absent"

\* Writer::writeNameSection, the first pass over the debug names refs: the
\* count, and the symbols flagged.
RECURSIVE countNames(_, _, _, _)
countNames(refs, st, fs, Count) ==
  IF refs = <<>> THEN [st |-> st, FunctionNameCount |-> Count]
  ELSE LET R == Head(refs)
       IN  IF isResolvedFunctionImport(st, fs[R.File], R.Index)
             THEN countNames(Tail(refs), st, fs, Count)
           ELSE IF Found(st, R.Name)
             THEN IF st[R.Name].WrittenToSymtab
                    THEN countNames(Tail(refs), st, fs, Count)
                    ELSE countNames(Tail(refs),
                           [st EXCEPT ![R.Name].WrittenToSymtab = TRUE], fs, Count + 1)
           ELSE countNames(Tail(refs), st, fs, Count + 1)

\* An emitNames that writes a flagged symbol's name and leaves the flag set.
RECURSIVE emitNames_keepsFlag(_, _, _, _, _)
emitNames_keepsFlag(refs, st, fs, ImportedNames, names) ==
  IF refs = <<>> THEN [st |-> st, names |-> names]
  ELSE LET R == Head(refs)
           f == fs[R.File]
           entry == [Index |-> relocateFunctionIndex(st, f, R.Index), Name |-> R.Name,
                     File |-> R.File]
       IN  IF isImportedFunction(f, R.Index) # ImportedNames
             THEN emitNames_keepsFlag(Tail(refs), st, fs, ImportedNames, names)
           ELSE IF isResolvedFunctionImport(st, f, R.Index)
             THEN emitNames_keepsFlag(Tail(refs), st, fs, ImportedNames, names)
           ELSE IF Found(st, R.Name) /\ ~st[R.Name].WrittenToSymtab
             THEN emitNames_keepsFlag(Tail(refs), st, fs, ImportedNames, names)
           ELSE emitNames_keepsFlag(Tail(refs), st, fs, ImportedNames, Append(names, entry))

\* Writer::writeNameSection, one round of the second pass over the debug
\* names refs: the (function index, name) entries written after names (File
\* is the object the entry came from), and the flags cleared.
RECURSIVE emitNames(_, _, _, _, _)
emitNames(refs, st, fs, ImportedNames, names) ==
  IF refs = <<>> THEN [st |-> st, names |-> names]
  ELSE LET R == Head(refs)
           f == fs[R.File]
           entry == [Index |-> relocateFunctionIndex(st, f, R.Index), Name |-> R.Name,
                     File |-> R.File]
       IN  IF isImportedFunction(f, R.Index) # ImportedNames
             THEN emitNames(Tail(refs), st, fs, ImportedNames, names)
           ELSE IF isResolvedFunctionImport(st, f, R.Index)
             THEN emitNames(Tail(refs), st, fs, ImportedNames, names)
           ELSE IF Found(st, R.Name)
             THEN IF ~st[R.Name].WrittenToSymtab
                    THEN emitNames(Tail(refs), st, fs, ImportedNames, names)
                    ELSE emitNames(Tail(refs),
                           [st EXCEPT ![R.Name].WrittenToSymtab = FALSE], fs,
                           ImportedNames, Append(names, entry))
           ELSE emitNames(Tail(refs), st, fs, ImportedNames, Append(names, entry))

\* Writer::writeNameSection: the section, with the name count of the
\* subsection header, and the symbol table it leaves.
writeNameSection(st, fs, objs) ==
  LET refs == DebugRefs(fs, objs)
      first == countNames(refs, st, fs, 0)
      imported == emitNames(refs, first.st, fs, TRUE, <<>>)
      locals == emitNames(refs, imported.st, fs, FALSE, imported.names)
  IN  [st |-> locals.st,
       secs |-> <<[Type |-> "name", body |-> locals.names,
                   FunctionNameCount |-> first.FunctionNameCount]>>]

\* Writer::writeSections: the sections in the order of the calls, each writer
\* with its early return.  (writeStartSection writes nothing: its body is
\* commented out.)  A writer that ends the process leaves the sections
\* written before it.
writeSections(cfg, st, fs, objs, globals, FI, GI, TF, T) ==
  LET imp == writeImportSection(st, fs, FI, GI)
      exp == writeExportSection(cfg, st, fs, objs, T.TotalExports)
      fs1 == IF TF = U32(0) THEN fs ELSE codeOffsets(objs, fs, U32(0))
      s1 == <<Section("TYPE", <<>>)>>
      s2 == s1 \o imp.secs
              \o (IF TF = U32(0) THEN <<>> ELSE <<Section("FUNCTION", <<>>)>>)
              \o (IF T.TotalTableLength = U32(0) THEN <<>> ELSE <<Section("TABLE", <<>>)>>)
              \o <<Section("MEMORY", <<>>)>>
              \o writeGlobalSection(cfg, fs, objs, globals)
      s3 == s2 \o exp.secs
              \o (IF T.TotalElements = U32(0) THEN <<>> ELSE <<Section("ELEM", <<>>)>>)
              \o (IF TF = U32(0) THEN <<>> ELSE <<Section("CODE", <<>>)>>)
              \o (IF T.TotalDataSegments = U32(0) THEN <<>> ELSE <<Section("DATA", <<>>)>>)
              \o (IF cfg.EmitRelocs \/ cfg.Relocatable
                    THEN writeRelocSections(st, fs1, objs, T.TotalCodeRelocations)
                    ELSE <<>>)
      names == writeNameSection(st, fs1, objs)
  IN  IF imp.out # "ok"
        THEN [out |-> imp.out, files |-> fs, st |-> st, asserts |-> {}, sections |-> s1]
      ELSE IF exp.out # "ok"
        THEN [out |-> exp.out, files |-> fs, st |-> st, asserts |-> {}, sections |-> s2]
      ELSE IF ~cfg.StripDebug /\ ~cfg.StripAll
        THEN [out |-> "ok", files |-> fs1, st |-> names.st, asserts |-> exp.asserts,
              sections |-> s3 \o names.secs]
      ELSE [out |-> "ok", files |-> fs1, st |-> st, asserts |-> exp.asserts, sections |-> s3]

\* Writer::writeHeader and Writer::writeSections: the file is written.
WriteSections ==
  /\ pc = "writeSections"
  /\ LET r == writeSections(Config, Symtab, files, ObjectFiles, SyntheticGlobals,
                            FunctionImports, GlobalImports, TotalFunctions,
                            [TotalTypes |-> TotalTypes,
                             TotalTableLength |-> TotalTableLength,
                             TotalExports |-> TotalExports,
                             TotalElements |-> TotalElements,
                             TotalDataSegments |-> TotalDataSegments,
                             TotalCodeRelocations |-> TotalCodeRelocations])
     IN  /\ sections' = r.sections
         /\ files' = r.files
         /\ Symtab' = r.st
         /\ asserts' = asserts \cup r.asserts
         /\ pc' = IF r.out = "ok" THEN "return" ELSE "aborted"
         /\ fatalMsg' = CASE r.out = "ok" -> fatalMsg
                          [] r.out = "fatal" -> "entry point is not a function"
                          [] OTHER -> "crash"
  /\ outputFile' = "written"
  /\ UNCHANGED <<leb, totalVars, Config, ErrorCount, errors, Files, stack, ObjectFiles,
                 defOrder, asked, SyntheticGlobals, FunctionImports,
                 GlobalImports, TotalFunctions, TotalGlobals, TotalMemoryPages,
                 linkResult>>

\* lld::wasm::link returns !ErrorCount.
LinkReturn ==
  /\ pc = "return"
  /\ linkResult' = IF ErrorCount = 0 THEN "true" ELSE "false"
  /\ pc' = "done"
  /\ UNCHANGED <<leb, totalVars, sections, Config, ErrorCount, errors, fatalMsg, symVars, SyntheticGlobals, writerVars,
                 asserts>>

Next == LinkSetup \/ CreateFiles \/ StartObject \/ StartArchive \/ ParseSymbol
          \/ EndParse \/ ArchiveStep \/ EndArchive \/ FilesDone
          \/ ReportRemainingUndefines \/ CalculateImports \/ CalculateOffsets
          \/ AssignSymbolIndexes \/ LayoutMemory \/ OpenFile \/ WriteSections
          \/ LinkReturn

Spec == Init /\ [][Next]_vars

\* ------------------------------------------------- memory layout on its own

\* Stack sizes (-z stack-size) as 32-bit words, up to 2^32 - 1.
StackSizes ==
  { U32(0), U32(1), U32(WasmPageSize), <<1, 1>>, <<Limb - 2, 0>>, <<Limb - 1, 0>>,
    <<Limb - 1, Limb - 1>> }

\* memories()[0].Initial of an object, in pages; 0 also stands for an object
\* without a memory.
InitialPages == {0, 1, 2, Limb - 1}

\* The link as Writer::run finds it at layoutMemory, for objects that hold
\* nothing but a memory: any stack size, any initial page counts.
LayoutInit ==
  \E cfg \in Configs, z \in StackSizes, n \in 0..MaxLayoutObjects :
    \E pages \in [1..n -> InitialPages] :
      LET Entry == IF ~cfg.Relocatable THEN DefaultEntry ELSE ""
          r1 == addUndefinedFunction([a \in AllNames |-> Absent], Entry)
          r2 == addSyntheticGlobal(r1.st, <<>>, StackPointer, U32(0))
      IN  /\ pc = "layoutMemory"
          /\ Config = [Relocatable |-> cfg.Relocatable,
                       AllowUndefined |-> cfg.AllowUndefined,
                       AllowUndefinedSymbols |-> cfg.AllowUndefinedSymbols,
                       Entry |-> Entry, ZStackSize |-> z,
                       EmitRelocs |-> FALSE, StripDebug |-> FALSE, StripAll |-> FALSE]
          /\ ErrorCount = 0
          /\ errors = {}
          /\ fatalMsg = ""
          /\ Symtab = IF cfg.Relocatable THEN [a \in AllNames |-> Absent] ELSE r2.st
          /\ Files = [i \in 1..n |-> "obj"]
          /\ files = [i \in 1..n |-> [NewObject(0, 0) EXCEPT !.memInitial = pages[i]]]
          /\ stack = <<>>
          /\ ObjectFiles = [i \in 1..n |-> i]
          /\ SyntheticGlobals = IF cfg.Relocatable THEN <<>> ELSE r2.globals
          /\ FunctionImports = <<>>
          /\ GlobalImports = <<>>
          /\ TotalFunctions = U32(0)
          /\ TotalGlobals = U32(Len(SyntheticGlobals))
          /\ TotalMemoryPages = U32(0)
  /\ TotalTypes = U32(0)
  /\ TotalTableLength = U32(0)
  /\ TotalExports = U32(0)
  /\ TotalElements = U32(0)
  /\ TotalDataSegments = U32(0)
  /\ TotalCodeRelocations = U32(0)
  /\ sections = <<>>
  /\ leb = NoField
          /\ outputFile = "untouched"
          /\ linkResult = "none"
          /\ asserts = {}
          /\ defOrder = [a \in AllNames |-> <<>>]
          /\ asked = [a \in AllNames |-> 0]

LayoutNext == LayoutMemory

LayoutSpec == LayoutInit /\ [][LayoutNext]_vars

\* ------------------------------------------- the synthetic adders on their own

\* A symbol table in which at most one name was inserted, with the file that
\* inserted it: an object defined or imported it, an archive listed it, or a
\* synthetic adder put it there.
SyntheticTables ==
  LET empty == [a \in AllNames |-> Absent]
  IN  {[st |-> empty, files |-> <<>>]}
        \cup { LET fs == <<[NewObject(0, 0) EXCEPT !.syms = <<ws>>]>>
               IN  [st |-> (IF ws.Type \in ExportTypes THEN addDefined(empty, fs, 1, 1)
                            ELSE addUndefined(empty, fs, 1, 1)).st,
                    files |-> fs] : ws \in WasmSymbols }
        \cup { [st |-> addLazy(empty, <<NewArchive(dir)>>, 1, 1).st,
                files |-> <<NewArchive(dir)>>] : dir \in ArchiveDirs }
        \cup { [st |-> addUndefinedFunction(empty, n).st, files |-> <<>>] : n \in AllNames }
        \cup { [st |-> addDefinedGlobal(empty, n).st, files |-> <<>>] : n \in AllNames }

\* A table, and an entry name (--entry) that may be any name.
SyntheticInit ==
  \E t \in SyntheticTables, Entry \in AllNames :
    /\ pc = "synthetic"
    /\ Config = [Relocatable |-> FALSE, AllowUndefined |-> FALSE,
                 AllowUndefinedSymbols |-> {}, Entry |-> Entry,
                 ZStackSize |-> U32(WasmPageSize),
                 EmitRelocs |-> FALSE, StripDebug |-> FALSE, StripAll |-> FALSE]
    /\ ErrorCount = 0
    /\ errors = {}
    /\ fatalMsg = ""
    /\ Symtab = t.st
    /\ Files = <<>>
    /\ files = t.files
    /\ stack = <<>>
    /\ ObjectFiles = <<>>
    /\ SyntheticGlobals = <<>>
    /\ FunctionImports = <<>>
    /\ GlobalImports = <<>>
    /\ TotalFunctions = U32(0)
    /\ TotalGlobals = U32(0)
    /\ TotalMemoryPages = U32(0)
    /\ TotalTypes = U32(0)
    /\ TotalTableLength = U32(0)
    /\ TotalExports = U32(0)
    /\ TotalElements = U32(0)
    /\ TotalDataSegments = U32(0)
    /\ TotalCodeRelocations = U32(0)
    /\ sections = <<>>
    /\ leb = NoField
    /\ outputFile = "untouched"
    /\ linkResult = "none"
    /\ asserts = {}
    /\ defOrder = [a \in AllNames |-> <<>>]
    /\ asked = [a \in AllNames |-> 0]

\* LinkerDriver::addSyntheticUndefinedFunction: addUndefinedFunction of the
\* entry name.
AddSyntheticUndefinedFunction ==
  /\ pc = "synthetic"
  /\ LET r == addUndefinedFunction(Symtab, Config.Entry)
     IN  /\ Symtab' = r.st
         /\ ErrorCount' = ErrorCount + Len(r.errs)
         /\ errors' = errors \cup Range(r.errs)
  /\ pc' = "addSyntheticUndefinedFunction"
  /\ UNCHANGED <<leb, totalVars, sections, Config, fatalMsg, Files, files, stack, ObjectFiles,
                 defOrder, asked, SyntheticGlobals, writerVars, linkResult, asserts>>

\* LinkerDriver::addSyntheticGlobal(Name, 0).
AddSyntheticGlobal ==
  /\ pc = "synthetic"
  /\ \E Name \in AllNames :
       LET r == addSyntheticGlobal(Symtab, SyntheticGlobals, Name, U32(0))
       IN  /\ Symtab' = r.st
           /\ SyntheticGlobals' = r.globals
           /\ ErrorCount' = ErrorCount + Len(r.errs)
           /\ errors' = errors \cup Range(r.errs)
           /\ asserts' = asserts \cup r.asserts
  /\ pc' = "addSyntheticGlobal"
  /\ UNCHANGED <<leb, totalVars, sections, Config, fatalMsg, Files, files, stack, ObjectFiles,
                 defOrder, asked, writerVars, linkResult>>

SyntheticNext == AddSyntheticUndefinedFunction \/ AddSyntheticGlobal

SyntheticSpec == SyntheticInit /\ [][SyntheticNext]_vars

\* ------------------------------------------------- the encoder on its own

RECURSIVE Pow2(_)
Pow2(b) == IF b = 0 THEN 1 ELSE 2 * Pow2(b - 1)

\* 2^b as a 32-bit word.
Pow2Word(b) == IF b < 16 THEN <<0, Pow2(b)>> ELSE <<Pow2(b - 16), 0>>

\* uint32_t values: 0, and around every power of two up to 2^32 - 1.
Uint32Values ==
  {U32(0)} \cup { Pow2Word(b) : b \in 0..31 }
           \cup { Sub32(Pow2Word(b), U32(1)) : b \in 0..31 }
           \cup { Add32(Pow2Word(b), U32(1)) : b \in 0..31 }

\* int32_t values: around every power of two and its negative, from -2^31
\* to 2^31 - 1.
Int32Values ==
  { Pow2(b) : b \in 0..30 } \cup { Pow2(b) - 1 : b \in 0..30 }
    \cup { -Pow2(b) : b \in 0..30 } \cup { -Pow2(b) - 1 : b \in 0..30 }
    \cup { (Pow2(30) - 1) + Pow2(30), (-Pow2(30)) - Pow2(30) }

\* A value waits to be written as a padded field.
LebInit ==
  /\ pc = "encode"
  /\ leb \in [kind : {"ULEB128"}, value : Uint32Values, Padding : {0}, bytes : {<<>>}]
               \cup [kind : {"SLEB128"}, value : Int32Values, Padding : {0}, bytes : {<<>>}]
  /\ Config = [Relocatable |-> FALSE, AllowUndefined |-> FALSE,
               AllowUndefinedSymbols |-> {}, Entry |-> "", ZStackSize |-> U32(0),
               EmitRelocs |-> FALSE, StripDebug |-> FALSE, StripAll |-> FALSE]
  /\ ErrorCount = 0
  /\ errors = {}
  /\ fatalMsg = ""
  /\ Symtab = [n \in AllNames |-> Absent]
  /\ Files = <<>>
  /\ files = <<>>
  /\ stack = <<>>
  /\ ObjectFiles = <<>>
  /\ SyntheticGlobals = <<>>
  /\ FunctionImports = <<>>
  /\ GlobalImports = <<>>
  /\ TotalFunctions = U32(0)
  /\ TotalGlobals = U32(0)
  /\ TotalMemoryPages = U32(0)
  /\ TotalTypes = U32(0)
  /\ TotalTableLength = U32(0)
  /\ TotalExports = U32(0)
  /\ TotalElements = U32(0)
  /\ TotalDataSegments = U32(0)
  /\ TotalCodeRelocations = U32(0)
  /\ sections = <<>>
  /\ outputFile = "untouched"
  /\ linkResult = "none"
  /\ asserts = {}
  /\ defOrder = [n \in AllNames |-> <<>>]
  /\ asked = [n \in AllNames |-> 0]

\* write_uleb128_padded(Number) for a section size, and the *_LEB case of
\* applyCodeRelocations: the padding, then the encoding.
WriteUleb128Padded ==
  /\ pc = "encode" /\ leb.kind = "ULEB128"
  /\ LET Padding == PaddingFor5ByteULEB128(leb.value)
     IN  leb' = [leb EXCEPT !.Padding = Padding, !.bytes = encodeULEB128(leb.value, Padding)]
  /\ pc' = "encoded"
  /\ UNCHANGED <<totalVars, sections, Config, ErrorCount, errors, fatalMsg, symVars,
                 SyntheticGlobals, writerVars, linkResult, asserts>>

\* The *_SLEB case of applyCodeRelocations.
WriteSleb128Padded ==
  /\ pc = "encode" /\ leb.kind = "SLEB128"
  /\ LET Padding == PaddingFor5ByteSLEB128(leb.value)
     IN  leb' = [leb EXCEPT !.Padding = Padding, !.bytes = encodeSLEB128(leb.value, Padding)]
  /\ pc' = "encoded"
  /\ UNCHANGED <<totalVars, sections, Config, ErrorCount, errors, fatalMsg, symVars,
                 SyntheticGlobals, writerVars, linkResult, asserts>>

LebNext == WriteUleb128Padded \/ WriteSleb128Padded

LebSpec == LebInit /\ [][LebNext]_vars

\* ------------------------------------------------------ the Writer on its own

\* The wasm symbols of the object WriterSpec links: the object may also
\* import the entry function.
WriterSymbols ==
  { ws \in WasmSymbols : ~ws.Weak }
    \cup {[Name |-> DefaultEntry, Type |-> "FUNCTION_IMPORT", Weak |-> FALSE]}

\* The symbol lists of an object: imports before exports, a name once.
SymbolLists ==
  { l \in UNION { [1..n -> WriterSymbols] : n \in 0..MaxWriterSyms } :
      /\ \A i, j \in DOMAIN l : i # j => l[i].Name # l[j].Name
      /\ \A i, j \in DOMAIN l :
           (i < j /\ l[i].Type \in ExportTypes) => l[j].Type \in ExportTypes }

\* What an object holds besides its symbols: types, a table with its element
\* segment, data segments.
ObjectShapes ==
  { [types |-> 0, tableInitial |-> 0, elems |-> 0, dataSegments |-> 0],
    [types |-> 1, tableInitial |-> 0, elems |-> 0, dataSegments |-> 1],
    [types |-> 2, tableInitial |-> 1, elems |-> 1, dataSegments |-> 1] }

\* The relocations the code section of the object f may hold: each names an
\* index the object has.
ValidRelocs(f) ==
  { R \in [Type : {"TYPE_INDEX_LEB"}, Offset : {2}, Index : 0..(f.types - 1), Addend : {0}]
        \cup [Type : {"FUNCTION_INDEX_LEB"}, Offset : {2},
              Index : 0..(NumFunctionImports(f) + NumFunctions(f) - 1), Addend : {0}]
        \cup [Type : {"GLOBAL_INDEX_LEB"}, Offset : {2},
              Index : 0..(NumGlobalImports(f) + NumGlobals(f) - 1), Addend : {0}]
        \cup [Type : {"GLOBAL_ADDR_LEB"}, Offset : {2},
              Index : 0..(NumGlobalImports(f) + NumGlobals(f) - 1), Addend : {4}]
        \cup [Type : {"TABLE_INDEX_SLEB"}, Offset : {2}, Index : 0..(f.elems - 1),
              Addend : {0}] :
      HasCode(f) }

RelocLists(f) ==
  UNION { [1..n -> ValidRelocs(f)] : n \in 0..MaxRelocs }

\* ObjectFile::parse of the whole object F, from its symbol pos on.
RECURSIVE parseAll(_, _, _, _)
parseAll(st, fs, F, pos) ==
  IF pos > Len(fs[F].syms) THEN st
  ELSE parseAll((IF fs[F].syms[pos].Type \in ExportTypes
                   THEN addDefined(st, fs, F, pos)
                   ELSE addUndefined(st, fs, F, pos)).st,
                fs, F, pos + 1)

\* The command lines of WriterSpec: those of Configs, and --entry, --emit-relocs,
\* --strip-debug, --strip-all.
WriterConfigs ==
  { c \in [Relocatable : BOOLEAN, AllowUndefined : BOOLEAN, AllowUndefinedSymbols : {{}},
           Entry : {"", "foo"}, EmitRelocs : BOOLEAN, StripDebug : BOOLEAN,
           StripAll : BOOLEAN] :
      /\ ~(c.Relocatable /\ c.AllowUndefined)
      /\ ~c.Relocatable => c.Entry = "" }

\* The link as Writer::run finds it: one object was parsed and
\* reportRemainingUndefines, where it ran, found nothing.
WriterInit ==
  \E c \in WriterConfigs, l \in SymbolLists, sh \in ObjectShapes :
    LET Entry == IF ~c.Relocatable /\ c.Entry = "" THEN DefaultEntry ELSE c.Entry
        cfg == [Relocatable |-> c.Relocatable, AllowUndefined |-> c.AllowUndefined,
                AllowUndefinedSymbols |-> c.AllowUndefinedSymbols, Entry |-> Entry,
                ZStackSize |-> U32(WasmPageSize), EmitRelocs |-> c.EmitRelocs,
                StripDebug |-> c.StripDebug, StripAll |-> c.StripAll]
        f == [NewObject(0, 0) EXCEPT !.syms = l, !.types = sh.types,
                                     !.tableInitial = sh.tableInitial,
                                     !.elems = sh.elems, !.dataSegments = sh.dataSegments]
        r1 == addUndefinedFunction([a \in AllNames |-> Absent], Entry)
        r2 == addSyntheticGlobal(r1.st, <<>>, StackPointer, U32(0))
        st0 == IF c.Relocatable THEN [a \in AllNames |-> Absent] ELSE r2.st
    IN  \E relocs \in RelocLists(f) :
          LET fs == <<[f EXCEPT !.relocs = relocs]>>
              st == parseAll(st0, fs, 1, 1)
          IN  /\ c.AllowUndefined \/ c.Relocatable \/ Undefs(st, cfg) = {}
              /\ pc = "calculateImports"
              /\ Config = cfg
              /\ ErrorCount = 0
              /\ errors = {}
              /\ fatalMsg = ""
              /\ Symtab = st
              /\ Files = <<"obj">>
              /\ files = fs
              /\ stack = <<>>
              /\ ObjectFiles = <<1>>
              /\ SyntheticGlobals = IF c.Relocatable THEN <<>> ELSE r2.globals
              /\ FunctionImports = <<>>
              /\ GlobalImports = <<>>
              /\ TotalFunctions = U32(0)
              /\ TotalGlobals = U32(0)
              /\ TotalMemoryPages = U32(0)
              /\ TotalTypes = U32(0)
              /\ TotalTableLength = U32(0)
              /\ TotalExports = U32(0)
              /\ TotalElements = U32(0)
              /\ TotalDataSegments = U32(0)
              /\ TotalCodeRelocations = U32(0)
              /\ sections = <<>>
              /\ leb = NoField
              /\ outputFile = "untouched"
              /\ linkResult = "none"
              /\ asserts = {}
              /\ defOrder = [a \in AllNames |->
                               IF a \in Defines(f) THEN <<1>> ELSE <<>>]
              /\ asked = [a \in AllNames |-> 0]

WriterNext == CalculateImports \/ CalculateOffsets \/ AssignSymbolIndexes \/ LayoutMemory
                \/ OpenFile \/ WriteSections \/ LinkReturn

WriterSpec == WriterInit /\ [][WriterNext]_vars

\* -------------------------------------------- the name section on its own

\* The function symbols of an object of NameSpec.
NameSymbols ==
  [Name : Names, Type : {"FUNCTION_IMPORT", "FUNCTION_EXPORT"}, Weak : {FALSE}]

\* The symbol lists of an object of NameSpec: at most one function symbol.
NameSymbolLists == {<<>>} \cup { <<ws>> : ws \in NameSymbols }

\* The DEBUG_FUNCTION_NAME symbols an object f may hold, n of them: each names
\* a function index of the object.
DebugNameLists(f, n) ==
  [1..n -> [Name : Names, Index : 0..(NumFunctionImports(f) + NumFunctions(f) - 1)]]

\* A relocatable link of two objects when Writer::run has calculated the
\* imports and the offsets: the objects were parsed without an error.
NameInit ==
  \E l1 \in NameSymbolLists, l2 \in NameSymbolLists, x \in ExtraFunctions,
     n1 \in 0..MaxDebugNames, n2 \in 0..MaxDebugNames :
    LET cfg == [Relocatable |-> TRUE, AllowUndefined |-> FALSE,
                AllowUndefinedSymbols |-> {}, Entry |-> "", ZStackSize |-> U32(WasmPageSize),
                EmitRelocs |-> FALSE, StripDebug |-> FALSE, StripAll |-> FALSE]
        f1 == [NewObject(0, 0) EXCEPT !.syms = l1, !.extra = x]
        f2 == [NewObject(0, 0) EXCEPT !.syms = l2, !.extra = x]
    IN  /\ n1 + n2 <= MaxDebugNames
        /\ Defines(f1) \cap Defines(f2) = {}
        /\ \E d1 \in DebugNameLists(f1, n1), d2 \in DebugNameLists(f2, n2) :
             LET fs == <<[f1 EXCEPT !.debugNames = d1], [f2 EXCEPT !.debugNames = d2]>>
                 st == parseAll(parseAll([a \in AllNames |-> Absent], fs, 1, 1), fs, 2, 1)
                 imp == calculateImports(SymbolRefs(fs, <<1, 2>>), st, <<>>, <<>>)
                 off == calculateOffsets(<<1, 2>>, fs, cfg, U32(0), U32(0),
                          [TotalTypes |-> U32(0), TotalTableLength |-> U32(0),
                           TotalExports |-> U32(0), TotalElements |-> U32(0),
                           TotalDataSegments |-> U32(0), TotalCodeRelocations |-> U32(0)])
             IN  /\ pc = "assignSymbolIndexes"
                 /\ Config = cfg
                 /\ ErrorCount = 0
                 /\ errors = {}
                 /\ fatalMsg = ""
                 /\ Symtab = imp.st
                 /\ Files = <<"obj", "obj">>
                 /\ stack = <<>>
                 /\ ObjectFiles = <<1, 2>>
                 /\ SyntheticGlobals = <<>>
                 /\ FunctionImports = imp.FunctionImports
                 /\ GlobalImports = imp.GlobalImports
                 /\ files = off.files
                 /\ TotalFunctions = off.TotalFunctions
                 /\ TotalGlobals = off.TotalGlobals
                 /\ TotalMemoryPages = U32(0)
                 /\ TotalTypes = off.totals.TotalTypes
                 /\ TotalTableLength = off.totals.TotalTableLength
                 /\ TotalExports = off.totals.TotalExports
                 /\ TotalElements = off.totals.TotalElements
                 /\ TotalDataSegments = off.totals.TotalDataSegments
                 /\ TotalCodeRelocations = off.totals.TotalCodeRelocations
                 /\ sections = <<>>
                 /\ leb = NoField
                 /\ outputFile = "untouched"
                 /\ linkResult = "none"
                 /\ asserts = {}
                 /\ defOrder = [a \in AllNames |->
                                  IF a \in Defines(f1) THEN <<1>>
                                  ELSE IF a \in Defines(f2) THEN <<2>> ELSE <<>>]
                 /\ asked = [a \in AllNames |-> 0]

NameNext == AssignSymbolIndexes \/ LayoutMemory \/ OpenFile \/ WriteSections \/ LinkReturn

NameSpec == NameInit /\ [][NameNext]_vars

\* ================================================================ properties

\* The pcs at which Writer::run is running.
WriterPcs == {"calculateImports", "calculateOffsets", "assignSymbolIndexes",
              "layoutMemory", "openFile", "writeSections"}

\* The pcs at which Writer::assignSymbolIndexes has run.
IndexedPcs == {"layoutMemory", "openFile", "writeSections", "return", "done"}

\* The position in file F of the export of name n (0 if F has none).
DefPos(F, n) ==
  LET ps == { i \in DOMAIN files[F].syms :
                files[F].syms[i].Name = n /\ files[F].syms[i].Type \in ExportTypes }
  IN  IF ps = {} THEN 0 ELSE CHOOSE i \in ps : TRUE

\* The export of name n in the i-th file that defined n.
DefOf(n, i) == files[defOrder[n][i]].syms[DefPos(defOrder[n][i], n)]

\* The i-th and the j-th definition of n are the first two non-weak ones and
\* are of one family.
Clash(n, i, j) ==
  /\ i \in DOMAIN defOrder[n] /\ j \in DOMAIN defOrder[n] /\ i < j
  /\ ~DefOf(n, i).Weak /\ ~DefOf(n, j).Weak
  /\ DefOf(n, i).Type = DefOf(n, j).Type
  /\ \A k \in 1..(j - 1) : k # i => DefOf(n, k).Weak

\* C1: when two object files define one name, both non-weak and of one
\* family, a duplicate-symbol error has been reported for the name
\* (ErrorCount > 0), the symbol is still owned by the first of the two files,
\* and link() does not return true.
C1_DuplicateIsError ==
  \A n \in AllNames : \A i, j \in DOMAIN defOrder[n] :
     Clash(n, i, j) =>
       /\ ErrorCount > 0
       /\ <<"duplicate symbol", n>> \in errors
       /\ Symtab[n].File = defOrder[n][i]
       /\ Symtab[n].Sym = DefPos(defOrder[n][i], n)
       /\ linkResult # "true"

\* C1 witness: link() has returned false after two non-weak function
\* definitions of one name met.
C1_Witness ==
  /\ pc = "done" /\ linkResult = "false"
  /\ \E n \in Names : /\ Len(defOrder[n]) = 2 /\ Clash(n, 1, 2)
                       /\ DefOf(n, 1).Type = "FUNCTION_EXPORT"
                       /\ Symtab[n].File = defOrder[n][1]

\* The output index of the export of n in file F, from F's own offsets.
IndexIn(F, n) ==
  IF files[F].syms[DefPos(F, n)].Type = "FUNCTION_EXPORT"
    THEN Add32(files[F].FunctionIndexOffset, U32(ExportIndex(files[F], DefPos(F, n))))
    ELSE Add32(files[F].GlobalIndexOffset, U32(ExportIndex(files[F], DefPos(F, n))))

\* The symbol of n is the definition of n in file F.
OwnedBy(n, F) ==
  /\ isDefined(Symtab[n])
  /\ Symtab[n].File = F /\ Symtab[n].Sym = DefPos(F, n)
  /\ Symtab[n].kind = definedKind(files[F].syms[DefPos(F, n)].Type)

\* C2: of two definitions of one name, one weak and one not, the non-weak
\* file owns the symbol whatever the order, and no duplicate is reported; of
\* two weak definitions the first stays, without an error.  When the weak
\* definition came first, the symbol's output index is computed from the
\* offsets of the non-weak file alone.
C2_WeakYieldsToStrong ==
  \A n \in AllNames :
     Len(defOrder[n]) = 2 =>
       LET A == defOrder[n][1]
           B == defOrder[n][2]
           wA == DefOf(n, 1).Weak
           wB == DefOf(n, 2).Weak
       IN  /\ (wA /\ ~wB) => OwnedBy(n, B) /\ <<"duplicate symbol", n>> \notin errors
           /\ (~wA /\ wB) => OwnedBy(n, A) /\ <<"duplicate symbol", n>> \notin errors
           /\ (wA /\ wB) => OwnedBy(n, A) /\ <<"duplicate symbol", n>> \notin errors
           /\ (wA /\ ~wB /\ pc \in IndexedPcs) =>
                 /\ hasOutputIndex(Symtab[n])
                 /\ Symtab[n].OutputIndex = IndexIn(B, n)

\* C2 witness: a weak definition was followed by a non-weak one in a file
\* with other offsets, and the link has assigned the symbol its index.
C2_Witness ==
  /\ pc = "done" /\ ErrorCount = 0
  /\ \E n \in Names :
        /\ Len(defOrder[n]) = 2
        /\ DefOf(n, 1).Weak /\ ~DefOf(n, 2).Weak
        /\ OwnedBy(n, defOrder[n][2])
        /\ hasOutputIndex(Symtab[n])
        /\ IndexIn(defOrder[n][1], n) # IndexIn(defOrder[n][2], n)

IsFunctionType(T) == T \in {"FUNCTION_EXPORT", "FUNCTION_IMPORT"}

\* Object g has passed an import of n to addUndefined.
Imports(g, n) ==
  \E i \in DOMAIN files[g].syms :
     files[g].syms[i].Name = n /\ files[g].syms[i].Type \in ImportTypes

\* Every wasm symbol named n seen so far is of one family.
OneFamily(n) ==
  \A g, h \in DOMAIN files : \A i \in DOMAIN files[g].syms, j \in DOMAIN files[h].syms :
     (files[g].syms[i].Name = n /\ files[h].syms[j].Name = n)
       => IsFunctionType(files[g].syms[i].Type) = IsFunctionType(files[h].syms[j].Type)

\* C3: when one object defines a name and another refers to it as undefined,
\* in the same family, the symbol is Defined with the defining file and its
\* wasm symbol, whichever came first: addDefined over an Undefined entry
\* replaces kind, file and symbol, addUndefined over a Defined entry leaves it.
C3_DefinedBeatsUndefined ==
  \A n \in AllNames :
     (Len(defOrder[n]) = 1 /\ OneFamily(n)
        /\ \E g \in DOMAIN files : g # defOrder[n][1] /\ Imports(g, n))
       => OwnedBy(n, defOrder[n][1])

\* C3 witness: both orders in one link: one name defined and then referred
\* to, another referred to and then defined, by command-line objects.
C3_Witness ==
  /\ pc = "done" /\ Files = <<"obj", "obj">>
  /\ \E n, m \in Names :
        /\ n # m
        /\ defOrder[n] = <<1>> /\ Imports(2, n) /\ OneFamily(n) /\ OwnedBy(n, 1)
        /\ defOrder[m] = <<2>> /\ Imports(1, m) /\ OneFamily(m) /\ OwnedBy(m, 2)

\* Every command-line file has been added and no parse ended the process.
FilesAdded ==
  /\ Files \in CommandLines /\ stack = <<>>
  /\ pc \notin {"link", "createFiles", "addFiles"}
  /\ fatalMsg \notin {"symbol type mismatch", "crash"}

\* The link of C4: object o refers to n as undefined, and archive a lists n
\* alone, defined by its member 1.
ArchiveScenario(o, a, n) ==
  /\ Len(Files) = 2
  /\ files[o].kind = "obj" /\ files[o].parent = 0
  /\ files[a].kind = "archive"
  /\ files[a].dir = <<[name |-> n, member |-> 1]>>
  /\ Imports(o, n)

\* The objects pulled from archive a.
MembersOf(a) == { x \in DOMAIN files : files[x].kind = "obj" /\ files[x].parent = a }

\* C4: an object that refers to a name as undefined and an archive whose
\* member defines it, given in either order: once the files are added the
\* member is in ObjectFiles (once), the name is Defined and owned by the
\* member, and, when the two import nothing else and the entry (if any) is
\* defined, no symbol is Undefined and reportRemainingUndefines does not
\* fail the link.
C4_ArchiveMemberResolves ==
  \A o, a \in DOMAIN files : \A n \in Names :
     (FilesAdded /\ ArchiveScenario(o, a, n)) =>
       /\ Cardinality(MembersOf(a)) = 1
       /\ \A x \in MembersOf(a) :
             /\ Cardinality({ i \in DOMAIN ObjectFiles : ObjectFiles[i] = x }) = 1
             /\ OwnedBy(n, x)
             /\ ~isUndefined(Symtab[n]) /\ ~isLazy(Symtab[n])
             /\ ( /\ \A m \in Names \ {n} : ~Imports(o, m) /\ ~Imports(x, m)
                  /\ Config.Relocatable \/ DefaultEntry \in Defines(files[o]) )
                 => /\ \A m \in AllNames : ~isUndefined(Symtab[m])
                    /\ fatalMsg # "link failed"
                    /\ pc # "aborted"

\* C4 witness: the object came first, the archive second; the link checked
\* for undefined symbols, found none and returned true.
C4_Witness ==
  /\ pc = "done" /\ linkResult = "true"
  /\ ~Config.Relocatable /\ ~Config.AllowUndefined /\ Config.AllowUndefinedSymbols = {}
  /\ Files = <<"obj", "archive">>
  /\ \E n \in Names :
        /\ ArchiveScenario(1, 2, n)
        /\ MembersOf(2) = {3} /\ ObjectFiles = <<1, 3>> /\ OwnedBy(n, 3)

\* The objects pulled from an archive as the member that defines n.
MembersFor(n) ==
  { x \in DOMAIN files : /\ files[x].kind = "obj" /\ files[x].parent # 0
                          /\ n \in MustDefine(files, files[x]) }

\* The parse of object x has returned and addFile has listed it.
Loaded(x) == \E i \in DOMAIN ObjectFiles : ObjectFiles[i] = x

\* C5 as stated: the archive is asked for the member of a name at most once.
C5_AskedOnce == \A n \in AllNames : asked[n] <= 1

\* The state part of C5 as amended.
C5_PulledOnce ==
  /\ \A a \in DOMAIN files : \A m \in 1..2 :
        Cardinality({ x \in MembersOf(a) : files[x].member = m }) <= 1
  /\ \A x \in DOMAIN files :
        Cardinality({ i \in DOMAIN ObjectFiles : ObjectFiles[i] = x }) <= 1
  /\ \A n \in AllNames :
        /\ asked[n] >= 1 => Cardinality(MembersFor(n)) = 1
        /\ (isLazy(Symtab[n]) /\ \E g \in DOMAIN files : Imports(g, n))
             => Cardinality(MembersFor(n)) = 1
        /\ \A x \in MembersFor(n) :
             /\ FilesAdded => Loaded(x)
             /\ Loaded(x) => /\ OwnedBy(n, x) \/ Len(defOrder[n]) > 1
                             /\ ~isLazy(Symtab[n])
                             /\ \A i \in DOMAIN files[x].syms :
                                   Symtab[files[x].syms[i].Name].kind # "Absent"

\* The step part of C5 as amended: no request for a loaded member.
C5_NoAskAfterLoad ==
  \A n \in AllNames :
     (\E x \in MembersFor(n) : Loaded(x)) => asked'[n] = asked[n]

\* C5 (amended): a symbol that is Lazy when an undefined reference to its
\* name arrives has its archive member pulled in exactly once, and all the
\* member's symbols are added; once the member's parse has returned the
\* symbol is not Lazy and no further reference asks the archive again.  (A
\* reference made while the member's parse is still running does ask again,
\* and the archive ignores it.)
C5_LazyPulledOnce == []C5_PulledOnce /\ [][C5_NoAskAfterLoad]_vars

\* C5 witness: two members that refer to each other: the archive was asked
\* twice for one name and its member was loaded once.
C5_Witness ==
  /\ pc = "done"
  /\ \E n \in Names :
        /\ asked[n] = 2
        /\ \E x \in MembersFor(n) : MembersFor(n) = {x} /\ Loaded(x) /\ OwnedBy(n, x)

\* C6 as stated: a symbol that is Undefined while the Writer runs is in the
\* allowed-undefined set, or the output is relocatable.
C6_UndefinedAllowedOrRelocatable ==
  pc \in WriterPcs =>
    \A n \in AllNames :
       isUndefined(Symtab[n]) => n \in Config.AllowUndefinedSymbols \/ Config.Relocatable

\* C6 (amended): a symbol that is Undefined while the Writer runs is in the
\* allowed-undefined set, or the output is relocatable, or AllowUndefined is
\* set; in every other case the link has failed before the Writer.
C6_UndefinedAllowed ==
  pc \in WriterPcs =>
    \A n \in AllNames :
       isUndefined(Symtab[n]) =>
         \/ n \in Config.AllowUndefinedSymbols
         \/ Config.Relocatable
         \/ Config.AllowUndefined

\* C6 witness: reportRemainingUndefines ran and let the link through to the
\* Writer with an Undefined symbol of the allowed set.
C6_Witness ==
  /\ pc = "calculateImports"
  /\ ~Config.Relocatable /\ ~Config.AllowUndefined
  /\ \E n \in AllNames : isUndefined(Symtab[n]) /\ n \in Config.AllowUndefinedSymbols

\* The error() messages raised while the files were added.
LoadErrors ==
  { e \in errors : e[1] \in {"duplicate symbol", "symbol type mismatch", "existing type"} }

\* C7: once the input files are added, an error raised while adding them
\* (ErrorCount > 0) keeps the Writer from being invoked: no Writer phase runs
\* and the output file is neither removed nor created.
C7_NoWriterAfterErrors ==
  /\ pc \in WriterPcs => LoadErrors = {}
  /\ outputFile # "untouched" => LoadErrors = {}

\* The place of object x in ObjectFiles.
ObjPos(x) == CHOOSE i \in DOMAIN ObjectFiles : ObjectFiles[i] = x

\* The number of local functions of the first k objects of ObjectFiles.
RECURSIVE FunctionsOfFirst(_)
FunctionsOfFirst(k) ==
  IF k = 0 THEN 0
  ELSE FunctionsOfFirst(k - 1) + NumFunctions(files[ObjectFiles[k]])

\* The names whose symbol is a function defined by an object.
ObjectFunctions ==
  { n \in AllNames : Symtab[n].kind = "DefinedFunction" /\ Symtab[n].File # 0 }

\* The output index C8 states for the function symbol of n.
StatedFunctionIndex(n) ==
  LET f == Symtab[n].File
  IN  U32(Len(FunctionImports) + FunctionsOfFirst(ObjPos(f) - 1)
            + ExportIndex(files[f], Symtab[n].Sym) - NumFunctionImports(files[f]))

\* C8: the function index space is the function imports followed by the
\* local functions of each object in ObjectFiles order: a function symbol
\* defined by the k-th object with file-local index e has the output index
\* FunctionImports.size() + the functions of the objects before it + (e - the
\* file's function imports); these indices are pairwise distinct and lie in
\* [FunctionImports.size(), FunctionImports.size() + TotalFunctions).
C8_FunctionIndexSpace ==
  pc \in IndexedPcs =>
    /\ TotalFunctions = U32(FunctionsOfFirst(Len(ObjectFiles)))
    /\ \A n \in ObjectFunctions :
          /\ Loaded(Symtab[n].File)
          /\ hasOutputIndex(Symtab[n])
          /\ Symtab[n].OutputIndex = StatedFunctionIndex(n)
          /\ Le32(U32(Len(FunctionImports)), Symtab[n].OutputIndex)
          /\ Lt32(Symtab[n].OutputIndex, Add32(U32(Len(FunctionImports)), TotalFunctions))
    /\ \A n, m \in ObjectFunctions :
          n # m => Symtab[n].OutputIndex # Symtab[m].OutputIndex

\* C8 witness: a function of the second object has its index, in a link
\* whose objects import more functions than the output does and have
\* functions that no symbol exports.
C8_Witness ==
  /\ pc = "done" /\ Len(ObjectFiles) = 2
  /\ \E n, m \in ObjectFunctions :
        /\ ObjPos(Symtab[n].File) = 2 /\ ObjPos(Symtab[m].File) = 1
        /\ NumFunctionImports(files[Symtab[n].File]) > Len(FunctionImports)
        /\ files[Symtab[n].File].extra = 1
        /\ Symtab[n].OutputIndex = U32(3)

\* The names whose symbol is a global defined by an object.
ObjectGlobals ==
  { n \in AllNames : Symtab[n].kind = "DefinedGlobal" /\ Symtab[n].File # 0 }

\* C9: in an executable link the output index of every global symbol an
\* object defines is below TotalGlobals and is not the index of
\* __stack_pointer (index 0).
C9_GlobalIndexInRange ==
  (pc \in IndexedPcs /\ ~Config.Relocatable) =>
    \A n \in ObjectGlobals :
       hasOutputIndex(Symtab[n]) =>
         /\ Lt32(Symtab[n].OutputIndex, TotalGlobals)
         /\ Symtab[n].OutputIndex # Symtab[StackPointer].OutputIndex

\* The pages the layout needs: the first page, the stack of an executable
\* rounded up to pages, and the initial pages of every object.
RECURSIVE InitialPagesOfFirst(_)
InitialPagesOfFirst(k) ==
  IF k = 0 THEN 0
  ELSE InitialPagesOfFirst(k - 1) + files[ObjectFiles[k]].memInitial

PagesNeeded ==
  1 + (IF Config.Relocatable THEN 0
       ELSE Config.ZStackSize[1] + (IF Config.ZStackSize[2] > 0 THEN 1 ELSE 0))
    + InitialPagesOfFirst(Len(ObjectFiles))

\* C10: after layoutMemory the memory of TotalMemoryPages pages covers the
\* first page, the stack (of an executable) and the initial memory of every
\* object: TotalMemoryPages * WasmPageSize >= WasmPageSize + ZStackSize +
\* the sum of Initial * WasmPageSize, whatever the sizes are.
C10_MemoryCoversLayout ==
  pc = "openFile" =>
    TotalMemoryPages[1] * Limb + TotalMemoryPages[2] >= PagesNeeded

\* The section ids and custom section names, in the order of the calls of
\* writeSections.
SectionOrder ==
  <<"TYPE", "IMPORT", "FUNCTION", "TABLE", "MEMORY", "GLOBAL", "EXPORT", "START", "ELEM",
    "CODE", "DATA", "reloc.CODE", "name">>

SectionRank(T) == CHOOSE k \in DOMAIN SectionOrder : SectionOrder[k] = T

Emitted(T) == \E i \in DOMAIN sections : sections[i].Type = T

\* writeSections returned.
SectionsWritten == pc \in {"return", "done"} /\ outputFile = "written"

\* The sections of the output are in the canonical order, none twice, START
\* never.
InSectionOrder ==
  /\ \A i \in DOMAIN sections : \E k \in DOMAIN SectionOrder : SectionOrder[k] = sections[i].Type
  /\ \A i, j \in DOMAIN sections :
       i < j => SectionRank(sections[i].Type) < SectionRank(sections[j].Type)
  /\ ~Emitted("START")

\* C11 as stated: the sections are written in the order TYPE, IMPORT, FUNCTION,
\* TABLE, MEMORY, GLOBAL, EXPORT, ELEM, CODE, DATA, each at most once and START
\* never; then reloc.CODE is written whenever EmitRelocs or Relocatable is set,
\* and name whenever neither StripDebug nor StripAll is, reloc.CODE before name.
C11_RelocsWhenAsked ==
  /\ InSectionOrder
  /\ SectionsWritten =>
       /\ (Config.EmitRelocs \/ Config.Relocatable) => Emitted("reloc.CODE")
       /\ (~Config.StripDebug /\ ~Config.StripAll) => Emitted("name")

\* C11, amended: the sections are written in the order TYPE, IMPORT, FUNCTION,
\* TABLE, MEMORY, GLOBAL, EXPORT, ELEM, CODE, DATA, each at most once and START
\* never; once writeSections has returned, reloc.CODE is in the output exactly
\* when EmitRelocs or Relocatable is set and the objects hold at least one code
\* relocation, and name exactly when neither StripDebug nor StripAll is set,
\* reloc.CODE before name.
C11_SectionOrder ==
  /\ InSectionOrder
  /\ SectionsWritten =>
       /\ Emitted("reloc.CODE") <=>
            /\ Config.EmitRelocs \/ Config.Relocatable
            /\ TotalCodeRelocations # U32(0)
       /\ Emitted("name") <=> (~Config.StripDebug /\ ~Config.StripAll)

\* A written output with every section of the order but START.
C11_Witness ==
  /\ SectionsWritten
  /\ \A k \in DOMAIN SectionOrder : SectionOrder[k] # "START" => Emitted(SectionOrder[k])

\* The pcs at which Writer::calculateImports has run.
ImportedPcs == {"calculateOffsets", "assignSymbolIndexes", "layoutMemory", "openFile",
                "writeSections", "return", "done"}

\* The pcs at which Writer::calculateOffsets has run.
OffsetPcs == ImportedPcs \ {"calculateOffsets"}

\* A relocatable link of a single object without an entry name.
RoundTrip == Config.Relocatable /\ Config.Entry = "" /\ ObjectFiles = <<1>>

\* The body of the section T of the output, <<>> if it was not written.
BodyOf(T) ==
  IF Emitted(T) THEN sections[CHOOSE i \in DOMAIN sections : sections[i].Type = T].body
  ELSE <<>>

\* The relocations of the object f as the object holds them.
OriginalRelocs(f) ==
  [i \in DOMAIN f.relocs |->
     [Type |-> f.relocs[i].Type, Offset |-> U32(f.relocs[i].Offset),
      Index |-> U32(f.relocs[i].Index), Addend |-> f.relocs[i].Addend]]

MixedFamilies(n) ==
  \E f1, f2 \in DOMAIN files :
    /\ f1 # f2
    /\ \E p1 \in DOMAIN files[f1].syms, p2 \in DOMAIN files[f2].syms :
         /\ files[f1].syms[p1].Name = n
         /\ files[f2].syms[p2].Name = n
         /\ IsFunctionType(files[f1].syms[p1].Type)
         /\ ~IsFunctionType(files[f2].syms[p2].Type)

\* C13: when two object files insert one name, one as a function and the
\* other as a global, in any order and whether they define or import it,
\* 'symbol type mismatch' is reported and the link is aborted.  (Stated for
\* links without an archive, in which no entry is ever Lazy.)
C13_TypeMismatchRejected ==
  (\A i \in DOMAIN Files : Files[i] = "obj") =>
    \A n \in Names :
      MixedFamilies(n) =>
        /\ pc = "aborted"
        /\ fatalMsg = "symbol type mismatch"
        /\ <<"symbol type mismatch", n>> \in errors

\* This step calls addDefined for the name n while its entry is Lazy.
DefinedOverLazy(n) == isLazy(Symtab[n]) /\ defOrder'[n] # defOrder[n]

\* C14 as stated: addDefined for a name whose entry is Lazy asks the archive
\* for the member the entry's cookie names.
C14_DefinedAsksArchive ==
  [][\A n \in Names : DefinedOverLazy(n) => asked'[n] = asked[n] + 1]_vars

\* C14, amended: addDefined for a name whose entry is Lazy does not ask the
\* archive and loads no member: the entry becomes the Defined symbol of the
\* defining object, and the link goes on.
C14_DefinedReplacesLazy ==
  [][\A n \in Names :
       DefinedOverLazy(n) =>
         /\ asked' = asked
         /\ Len(files') = Len(files)
         /\ stack' = stack
         /\ isDefined(Symtab'[n])
         /\ Symtab'[n].File = defOrder'[n][Len(defOrder'[n])]
         /\ pc' = pc]_vars

\* An archive that lists a name was read first, then an object defined the
\* name: the entry was Lazy when addDefined found it, and the archive has
\* given no member.
C14_Witness ==
  /\ Files = <<"archive", "obj">>
  /\ \A i \in DOMAIN files : files[i].parent = 0
  /\ \E n \in Names :
       /\ \E j \in DOMAIN files[1].dir : files[1].dir[j].name = n
       /\ isDefined(Symtab[n])
       /\ Symtab[n].File = 2

\* This step is addUndefinedFunction(n).
CallsAddUndefinedFunction(n) ==
  pc = "synthetic" /\ pc' = "addSyntheticUndefinedFunction" /\ n = Config.Entry

\* This step is addSyntheticGlobal(n, 0), which begins with addDefinedGlobal(n).
CallsAddDefinedGlobal(n) ==
  /\ pc = "synthetic" /\ pc' = "addSyntheticGlobal"
  /\ SyntheticGlobals'[Len(SyntheticGlobals')].sym = n

\* This step reports 'symbol type mismatch' for n.
ReportsMismatch(n) ==
  ErrorCount' = ErrorCount + 1 /\ <<"symbol type mismatch", n>> \in errors'

\* This step leaves kind, file and symbol record of n as they are.
KeepsEntry(n) ==
  /\ Symtab'[n].kind = Symtab[n].kind
  /\ Symtab'[n].File = Symtab[n].File
  /\ Symtab'[n].Sym = Symtab[n].Sym

\* C15: addDefinedGlobal and addUndefinedFunction set the kind only of a name
\* that was freshly inserted; for a name that exists they leave kind, file and
\* symbol record unchanged, addDefinedGlobal reports 'symbol type mismatch'
\* exactly when the existing symbol is a function and addUndefinedFunction
\* exactly when it is not.
C15_SyntheticAddersCheckFamily ==
  [][\A n \in AllNames :
       /\ CallsAddDefinedGlobal(n) =>
            IF Symtab[n].kind = "Absent"
              THEN Symtab'[n].kind = "DefinedGlobal" /\ ErrorCount' = ErrorCount
              ELSE KeepsEntry(n) /\ (ReportsMismatch(n) <=> isFunction(Symtab[n]))
       /\ CallsAddUndefinedFunction(n) =>
            IF Symtab[n].kind = "Absent"
              THEN Symtab'[n].kind = "UndefinedFunction" /\ ErrorCount' = ErrorCount
              ELSE KeepsEntry(n) /\ (ReportsMismatch(n) <=> ~isFunction(Symtab[n]))]_vars

\* The table holds a symbol that is Undefined, not Lazy, and not allowed.
SomeUndefined ==
  \E n \in AllNames :
    /\ Symtab[n].kind \in {"UndefinedFunction", "UndefinedGlobal"}
    /\ n \notin Config.AllowUndefinedSymbols

\* The driver calls reportRemainingUndefines.
ReportCalled == ~Config.AllowUndefined /\ ~Config.Relocatable

\* The step after the loop over Files: the link ends with 'link failed'
\* exactly when reportRemainingUndefines is called and finds a symbol;
\* otherwise the Writer is next.
C16_ReportStep ==
  pc = "report" =>
    IF ReportCalled /\ SomeUndefined
      THEN pc' = "aborted" /\ fatalMsg' = "link failed"
      ELSE pc' = "calculateImports" /\ fatalMsg' = fatalMsg

\* The check comes after every file was added and before the Writer; only it
\* ends a link with 'link failed'.
C16_ReportPlace ==
  /\ pc = "report" => (Files \in CommandLines /\ stack = <<>>)
  /\ pc \in {"link", "createFiles", "addFiles", "report"} =>
       (outputFile = "untouched" /\ FunctionImports = <<>> /\ GlobalImports = <<>>)
  /\ fatalMsg = "link failed" =>
       /\ pc = "aborted" /\ ReportCalled /\ SomeUndefined
       /\ outputFile = "untouched" /\ FunctionImports = <<>> /\ GlobalImports = <<>>

\* C16: reportRemainingUndefines ends the link with 'link failed' exactly when
\* the table holds a symbol that is Undefined, not Lazy, and not in
\* AllowUndefinedSymbols; a Lazy symbol nobody referenced does not fail the
\* link; the driver calls it once every input file is added and before the
\* Writer, exactly when neither AllowUndefined nor Relocatable is set.
C16_LinkFailedIffUndefined == []C16_ReportPlace /\ [][C16_ReportStep]_vars

\* An executable link without --allow-undefined reaches the Writer with a
\* Lazy symbol that no object referenced.
C16_Witness ==
  /\ pc = "calculateImports"
  /\ ReportCalled
  /\ \E n \in Names : isLazy(Symtab[n])

\* Writer::calculateImports has run in this link.
ImportsCalculated ==
  \/ pc \in WriterPcs \ {"calculateImports"}
  \/ pc \in {"return", "done", "aborted"} /\ outputFile # "untouched"

\* The names of seq, each once, in the order of their first occurrence.
RECURSIVE FirstOccurrences(_)
FirstOccurrences(seq) ==
  IF seq = <<>> THEN <<>>
  ELSE LET front == FirstOccurrences(SubSeq(seq, 1, Len(seq) - 1))
           last == seq[Len(seq)]
       IN  IF \E i \in DOMAIN front : front[i] = last THEN front ELSE Append(front, last)

\* The symbols the objects refer to that are not Defined, functions or not, in
\* the order in which the objects and their symbol lists first name them.
DiscoveredImports(function) ==
  SelectSeq(FirstOccurrences(SymbolRefs(files, ObjectFiles)),
            LAMBDA n : ~isDefined(Symtab[n]) /\ (isFunction(Symtab[n]) <=> function))

\* The i-th element of an import list has output index i, from 0.
DenselyIndexed(list) ==
  /\ \A i, j \in DOMAIN list : i # j => list[i] # list[j]
  /\ \A i \in DOMAIN list :
       Symtab[list[i]].OutputIndexSet /\ Symtab[list[i]].OutputIndex = U32(i - 1)

\* C17: after calculateImports, FunctionImports and GlobalImports hold no
\* symbol twice and hold exactly the symbols some object refers to that are
\* not Defined (none of them had an index before), in the order object by
\* object, symbol by symbol; the i-th element of each list has output index i,
\* each list counted from 0.
C17_ImportsDense ==
  ImportsCalculated =>
    /\ FunctionImports = DiscoveredImports(TRUE)
    /\ GlobalImports = DiscoveredImports(FALSE)
    /\ DenselyIndexed(FunctionImports)
    /\ DenselyIndexed(GlobalImports)

\* Two objects refer to one function import, and there is a global import.
C17_Witness ==
  /\ ImportsCalculated
  /\ GlobalImports # <<>>
  /\ \E n \in Range(FunctionImports) :
       \E a, b \in Range(ObjectFiles) : a # b /\ n \in SymNames(files[a]) /\ n \in SymNames(files[b])

\* The objects layoutMemory gives a DataOffset: those with Initial > 0.
Placed == { k \in DOMAIN ObjectFiles : files[ObjectFiles[k]].memInitial > 0 }

\* The stack top as a number of 2^16-byte units and a rest, not wrapped:
\* WasmPageSize + ZStackSize, or WasmPageSize when Relocatable.
StackTopUnits == IF Config.Relocatable THEN 1 ELSE 1 + Config.ZStackSize[1]
StackTopRest == IF Config.Relocatable THEN 0 ELSE Config.ZStackSize[2]

\* C18: after layoutMemory the init value of SyntheticGlobals[0] is
\* WasmPageSize + ZStackSize in an executable; the ranges
\* [DataOffset, DataOffset + Initial * WasmPageSize) of the objects with
\* Initial > 0 follow one another in ObjectFiles order, so they are pairwise
\* disjoint, and each begins at or above the stack top (at or above
\* WasmPageSize when Relocatable).
C18_DataAboveStack ==
  pc = "openFile" =>
    /\ ~Config.Relocatable =>
         SyntheticGlobals[1].init = <<StackTopUnits, StackTopRest>>
    /\ \A k \in Placed :
         LET f == files[ObjectFiles[k]]
         IN  /\ f.DataOffset[2] = StackTopRest
             /\ f.DataOffset[1] >= StackTopUnits
             /\ f.DataOffset[1] + f.memInitial <= Limb
    /\ \A i, j \in Placed :
         i < j => files[ObjectFiles[i]].DataOffset[1] + files[ObjectFiles[i]].memInitial
                    <= files[ObjectFiles[j]].DataOffset[1]

\* The length of the shortest ULEB128 encoding of a 32-bit word: the least
\* n with X < 2^(7n).
MinimalULEB(X) ==
  IF Lt32(X, <<0, 128>>) THEN 1
  ELSE IF Lt32(X, <<0, 16384>>) THEN 2
  ELSE IF Lt32(X, <<32, 0>>) THEN 3
  ELSE IF Lt32(X, <<4096, 0>>) THEN 4
  ELSE 5

\* The length of the shortest SLEB128 encoding of a 32-bit signed value: the
\* least n with -2^(7n-1) <= v < 2^(7n-1).
MinimalSLEB(v) ==
  IF -64 <= v /\ v < 64 THEN 1
  ELSE IF -8192 <= v /\ v < 8192 THEN 2
  ELSE IF -1048576 <= v /\ v < 1048576 THEN 3
  ELSE IF -134217728 <= v /\ v < 134217728 THEN 4
  ELSE 5

\* The field has been written.
Encoded == pc = "encoded" /\ leb.kind \in {"ULEB128", "SLEB128"}

\* C19: for every uint32 value the ULEB padding plus the length of the
\* value's shortest ULEB128 encoding is 5, for every int32 value the SLEB
\* padding plus the length of its shortest SLEB128 encoding is 5, and so a
\* padded section size or rewritten LEB/SLEB relocation field is exactly 5
\* bytes long.
C19_PaddedFieldIsFiveBytes ==
  Encoded =>
    /\ leb.kind = "ULEB128" => leb.Padding + MinimalULEB(leb.value) = 5
    /\ leb.kind = "SLEB128" => leb.Padding + MinimalSLEB(leb.value) = 5
    /\ Len(leb.bytes) = 5

\* A field was written with padding: 0 as a section size, and a negative
\* value that needs one byte.
C19_Witness ==
  /\ Encoded
  /\ \/ leb.kind = "ULEB128" /\ leb.value = U32(0) /\ leb.bytes = <<128, 128, 128, 128, 0>>
     \/ leb.kind = "SLEB128" /\ leb.value = -1 /\ leb.bytes = <<255, 255, 255, 255, 127>>

\* The number of objects' symbol lists entries that refer to the symbol n.
RefCount(n) ==
  LET refs == SymbolRefs(files, ObjectFiles)
  IN  Cardinality({i \in DOMAIN refs : refs[i] = n})

\* C20: over the driver and the Writer's addSyntheticGlobal, calculateImports
\* and assignSymbolIndexes, setOutputIndex is never called on a symbol whose
\* OutputIndexSet is already true: its assertion never fails.
C20_IndexAssignedOnce == "setOutputIndex" \notin asserts

\* assignSymbolIndexes is over in a link where an import and a definition are
\* each met more than once in the objects' symbol lists and have their index.
C20_Witness ==
  /\ pc = "layoutMemory"
  /\ "setOutputIndex" \notin asserts
  /\ \E n \in AllNames :
       RefCount(n) >= 2 /\ ~isDefined(Symtab[n]) /\ hasOutputIndex(Symtab[n])
  /\ \E m \in AllNames :
       RefCount(m) >= 2 /\ isDefined(Symtab[m]) /\ hasOutputIndex(Symtab[m])

\* The name section of the output.
NameSection == sections[CHOOSE i \in DOMAIN sections : sections[i].Type = "name"]

\* The entries of the name section that name a symbol of the symbol table.
FoundEntries(n) ==
  { i \in DOMAIN NameSection.body : NameSection.body[i].Name = n }

\* C21: when writeNameSection has returned, the name count of the subsection
\* header is the number of (function index, name) entries written, a symbol
\* found in the symbol table is written at most once, and no symbol is left
\* with WrittenToSymtab set.
C21_NameCountMatches ==
  (SectionsWritten /\ Emitted("name")) =>
    /\ NameSection.FunctionNameCount = Len(NameSection.body)
    /\ \A n \in AllNames : Found(Symtab, n) => Cardinality(FoundEntries(n)) <= 1
    /\ \A n \in AllNames : ~Symtab[n].WrittenToSymtab

\* The name section was written for two objects of which one imports foo,
\* unresolved, and the other holds a local function with the debug name foo:
\* both objects name foo and one entry was written for it.
C21_Witness ==
  /\ SectionsWritten /\ Emitted("name")
  /\ isUndefined(Symtab["foo"])
  /\ \E i \in DOMAIN files[1].debugNames :
       /\ files[1].debugNames[i].Name = "foo"
       /\ isImportedFunction(files[1], files[1].debugNames[i].Index)
  /\ \E i \in DOMAIN files[2].debugNames :
       /\ files[2].debugNames[i].Name = "foo"
       /\ ~isImportedFunction(files[2], files[2].debugNames[i].Index)
  /\ NameSection.FunctionNameCount = 1

\* The symbol S of the files fs is a weak definition of an object.
WeakDefinition(fs, S) == isDefined(S) /\ S.Sym # 0 /\ isWeak(fs, S)

\* The ways the kind of a symbol may change in one step, S before and T after.
KindChangeAllowed(S, T) ==
  \/ S.kind = "Absent"
  \/ (isUndefined(S) \/ isLazy(S)) /\ isDefined(T)
  \/ WeakDefinition(files, S) /\ isDefined(T) /\ ~WeakDefinition(files', T)

C22_Step ==
  \A n \in AllNames :
    /\ isDefined(Symtab[n]) => isDefined(Symtab'[n])
    /\ isUndefined(Symtab[n]) => (isUndefined(Symtab'[n]) \/ isDefined(Symtab'[n]))
    /\ isLazy(Symtab[n]) => (isLazy(Symtab'[n]) \/ isDefined(Symtab'[n]))
    /\ Symtab[n].kind # Symtab'[n].kind => KindChangeAllowed(Symtab[n], Symtab'[n])

\* C22: symbol kinds are monotonic.  In every step of the link a Defined
\* symbol stays Defined, an Undefined symbol does not become Lazy or absent,
\* and a kind changes only by a fresh insertion, from Undefined or Lazy to
\* Defined, or from a weak definition to a definition that is not weak.
C22_KindsMonotonic == [][C22_Step]_vars

\* A symbol went through a change of the last sort: its first definition was
\* weak and the second, which is not weak, has replaced it.
C22_Witness ==
  \E n \in AllNames :
    /\ isDefined(Symtab[n])
    /\ Len(defOrder[n]) >= 2
    /\ Symtab[n].File = defOrder[n][2]
    /\ ~WeakDefinition(files, Symtab[n])
    /\ \E i \in DOMAIN files[defOrder[n][1]].syms :
         /\ files[defOrder[n][1]].syms[i].Name = n
         /\ files[defOrder[n][1]].syms[i].Weak

\* writeSections is about to run and writeExportSection will be reached with
\* an entry name to export.
ExportsEntry ==
  /\ pc = "writeSections"
  /\ Config.Entry # ""
  /\ writeImportSection(Symtab, files, FunctionImports, GlobalImports).out = "ok"

\* C23: whenever writeExportSection exports the entry symbol, the symbol is in
\* the symbol table and, being a function, has its output index, so the
\* assertion of getOutputIndex never fails.
C23_EntryExportHasIndex ==
  /\ "getOutputIndex" \notin asserts
  /\ ExportsEntry =>
       /\ Found(Symtab, Config.Entry)
       /\ isFunction(Symtab[Config.Entry]) => hasOutputIndex(Symtab[Config.Entry])

\* The symbol n has an object as its file and a wasm symbol record that names
\* an import of that object.
HasImportRecord(n) ==
  LET S == Symtab[n]
  IN  /\ S.File # 0
      /\ files[S.File].kind = "obj"
      /\ S.Sym # 0
      /\ S.Sym \in DOMAIN files[S.File].syms
      /\ WasmSymOf(files, S).Type \in ImportTypes
      /\ WasmSymOf(files, S).Name = n

\* C24: every symbol in FunctionImports or GlobalImports has an ObjectFile as
\* its owning file and a wasm symbol record naming one of that file's
\* imports, so the assertions of writeImportSection and Symbol::getImport
\* hold and the import section is written.
C24_ImportsHaveObjectFile ==
  /\ \A i \in DOMAIN FunctionImports : HasImportRecord(FunctionImports[i])
  /\ \A i \in DOMAIN GlobalImports : HasImportRecord(GlobalImports[i])
  /\ (FunctionImports # <<>> /\ SectionsWritten) => Emitted("IMPORT")

\* The files whose parse is going on.
BeingParsed == { stack[k].file : k \in DOMAIN stack }

\* The objects the link has made, command-line objects and pulled members.
Objects == { f \in DOMAIN files : files[f].kind = "obj" }

\* The object f is in ObjectFiles.
Listed(f) == \E i \in DOMAIN ObjectFiles : ObjectFiles[i] = f

\* An object is in ObjectFiles, once, exactly when its parse has finished.
C25_ListedWhenParsed ==
  /\ \A i, j \in DOMAIN ObjectFiles : ObjectFiles[i] = ObjectFiles[j] => i = j
  /\ \A f \in Objects : Listed(f) <=> f \notin BeingParsed

\* A step that changes ObjectFiles appends the object whose parse ends: the
\* objects whose parse it interrupted are not yet listed, and when it is a
\* command-line object the command-line objects named before it are.
C25_AppendStep ==
  ObjectFiles' # ObjectFiles =>
    /\ stack # <<>>
    /\ ObjectFiles' = Append(ObjectFiles, Top.file)
    /\ ~Listed(Top.file)
    /\ \A k \in DOMAIN stack : k < Len(stack) => ~Listed(stack[k].file)
    /\ files[Top.file].parent = 0 =>
         \A f \in Objects : (f < Top.file /\ files[f].parent = 0) => Listed(f)

\* The first function index calculateOffsets gives the object f, before the
\* file's imports are taken off.
OffsetBase(f) == Add32(files[f].FunctionIndexOffset, U32(NumFunctionImports(files[f])))

\* calculateOffsets went over the objects in the order of ObjectFiles: each
\* object's functions follow those of the object listed before it.
C25_OffsetsInListOrder ==
  pc \in {"assignSymbolIndexes", "layoutMemory", "openFile", "writeSections"} =>
    \A i \in DOMAIN ObjectFiles :
      i > 1 => OffsetBase(ObjectFiles[i])
                 = Add32(OffsetBase(ObjectFiles[i - 1]),
                         U32(NumFunctions(files[ObjectFiles[i - 1]])))

====
